---- MODULE Spec2Model ----
(***************************************************************************)
(* Huckleberry: the environment chain (lib/src/env.rs), the tree-walking   *)
(* evaluator (lib/src/evaluator.rs) and the special forms                  *)
(* (lib/src/modules/special_forms.rs) as a state machine over a heap of    *)
(* scopes.  An EnvRef is the index of a scope in the heap; 0 is            *)
(* EnvRef::nil().                                                          *)
(***************************************************************************)
EXTENDS Integers, Sequences, FiniteSets, TLC

VARIABLES scopes, result, log, last

vars == <<scopes, result, log, last>>

(***************************************************************************)
(* Bounds of the exploration.                                              *)
(***************************************************************************)
\* Scopes the embedder may hold at once (the root and its extensions).
MaxScopes == 3
\* Methods registered at once, over all scopes and identifiers.
MaxMethods == 2
\* Scopes of the chain that methods are registered in.
MaxMethodScopes == 2

\* usize::MAX, the upper end of an open arity range.  No argument list of
\* the model comes near it, so the host integer width is immaterial here.
UsizeMax == 2147483647

(***************************************************************************)
(* expr.rs: the value model.  Every variant is a record with a tag; the    *)
(* payload field names are disjoint by type.                               *)
(***************************************************************************)
Nil == [tag |-> "Nil"]
Ampersand == [tag |-> "Ampersand"]
Boolean(b) == [tag |-> "Boolean", b |-> b]
\* Number(OrderedFloat<f64>): the f64 is the fraction n/d in lowest terms,
\* d > 0; d = 0 stands for infinity (n = 1), -infinity (n = -1) and NaN
\* (n = 0).  f64 arithmetic is exact where the result is a fraction whose
\* denominator is a small power of two, which is what the numbers of this
\* model are kept to; negative zero is not told apart from zero.
Float(n, d) == [tag |-> "Number", n |-> n, d |-> d]

\* Expr::number on a whole number.
Number(n) == Float(n, 1)
String(s) == [tag |-> "String", s |-> s]
Keyword(k) == [tag |-> "Keyword", k |-> k]
\* HMap: a BTreeMap<Expr, Expr> is the sequence of its <<key, value>>
\* entries in key order.  HMap::new() is the empty one.
HMap_new == <<>>

\* Symbol, Vector and Map carry a second HMap, their metadata.
SymbolMeta(name, meta) == [tag |-> "Symbol", name |-> name, meta |-> meta]
VectorMeta(items, meta) == [tag |-> "Vector", items |-> items, meta |-> meta]
MapMeta(entries, meta) == [tag |-> "Map", entries |-> entries, meta |-> meta]

\* Expr::symbol, Expr::vector and the Map of the parser: no metadata.
Symbol(name) == SymbolMeta(name, HMap_new)
Vector(items) == VectorMeta(items, HMap_new)
Map(entries) == MapMeta(entries, HMap_new)
List(items) == [tag |-> "List", items |-> items]
MethodList(items) == [tag |-> "MethodList", items |-> items]

Abs(n) == IF n < 0 THEN -n ELSE n
Sign(n) == IF n < 0 THEN -1 ELSE IF n > 0 THEN 1 ELSE 0

RECURSIVE Gcd(_, _)
Gcd(a, b) == IF b = 0 THEN a ELSE Gcd(b, a % b)

\* The f64 that is the fraction n/d, d # 0, in lowest terms.
Ratio(n, d) ==
    Float((Sign(d) * n) \div Gcd(Abs(n), Abs(d)), Abs(d) \div Gcd(Abs(n), Abs(d)))

NaN == Float(0, 0)
is_nan(a) == a.d = 0 /\ a.n = 0
is_infinite(a) == a.d = 0 /\ a.n # 0

\* f64 `+`, `-`, `*`, `/` (IEEE 754).
Float_add(a, b) ==
    IF is_nan(a) \/ is_nan(b) THEN NaN
    ELSE IF is_infinite(a) THEN (IF is_infinite(b) /\ b.n # a.n THEN NaN ELSE a)
    ELSE IF is_infinite(b) THEN b
    ELSE Ratio(a.n * b.d + b.n * a.d, a.d * b.d)

Float_sub(a, b) == Float_add(a, Float(-b.n, b.d))

Float_mul(a, b) ==
    IF is_nan(a) \/ is_nan(b) THEN NaN
    ELSE IF is_infinite(a) \/ is_infinite(b)
    THEN (IF a.n = 0 \/ b.n = 0 THEN NaN ELSE Float(Sign(a.n) * Sign(b.n), 0))
    ELSE Ratio(a.n * b.n, a.d * b.d)

Float_div(a, b) ==
    IF is_nan(a) \/ is_nan(b) THEN NaN
    ELSE IF is_infinite(a) THEN (IF is_infinite(b) THEN NaN
                                 ELSE Float(a.n * (IF b.n < 0 THEN -1 ELSE 1), 0))
    ELSE IF is_infinite(b) THEN Float(0, 1)
    ELSE IF b.n = 0 THEN Float(Sign(a.n), 0)
    ELSE Ratio(a.n * b.d, a.d * b.n)

\* f64 `<`: false when either side is NaN.
Float_lt(a, b) ==
    IF is_nan(a) \/ is_nan(b) \/ a = b THEN FALSE
    ELSE IF is_infinite(a) THEN a.n < 0
    ELSE IF is_infinite(b) THEN b.n > 0
    ELSE a.n * b.d < b.n * a.d

Float_lte(a, b) == ~is_nan(a) /\ ~is_nan(b) /\ (a = b \/ Float_lt(a, b))
Float_gt(a, b) == Float_lt(b, a)
Float_gte(a, b) == Float_lte(b, a)

\* The decimal digits of the fraction r/d, 0 <= r < d, d a power of two.
RECURSIVE FractionDigits(_, _)
FractionDigits(r, d) ==
    IF r = 0 THEN ""
    ELSE ToString((10 * r) \div d) \o FractionDigits((10 * r) % d, d)

\* Display of an f64.
Float_display(a) ==
    IF is_nan(a) THEN "NaN"
    ELSE IF is_infinite(a) THEN (IF a.n < 0 THEN "-inf" ELSE "inf")
    ELSE IF a.d = 1 THEN ToString(a.n)
    ELSE (IF a.n < 0 THEN "-" ELSE "") \o ToString(Abs(a.n) \div a.d) \o "."
         \o FractionDigits(Abs(a.n) % a.d, a.d)

Count(n) == [tag |-> "Count", n |-> n]
Range(min, max) == [tag |-> "Range", min |-> min, max |-> max]

NativeFn(id, arity) == [tag |-> "NativeFn", id |-> id, arity |-> arity]

\* Arity::check (the boolean `matches`).
Arity_check(arity, args) ==
    IF arity.tag = "Count"
    THEN Len(args) = arity.n
    ELSE arity.min <= Len(args) /\ Len(args) <= arity.max

(***************************************************************************)
(* error.rs: HError.  Panic is not an HError: it stands for a Rust panic   *)
(* (an index out of bounds), which ends the process.                       *)
(***************************************************************************)
UnboundVar(name) == [tag |-> "UnboundVar", name |-> name]
UnboundMethod(name) == [tag |-> "UnboundMethod", name |-> name]
UnexpectedForm(msg, expr) == [tag |-> "UnexpectedForm", msg |-> msg, expr |-> expr]
NotAFunction(msg) == [tag |-> "NotAFunction", msg |-> msg]
NotAMethod(name) == [tag |-> "NotAMethod", name |-> name]
InvalidEmptyList(msg) == [tag |-> "InvalidEmptyList", msg |-> msg]
SetUninitializedVar(name) == [tag |-> "SetUninitializedVar", name |-> name]
InvalidArity(name, arity) == [tag |-> "InvalidArity", name |-> name, arity |-> arity]
InvalidType(name, expr) == [tag |-> "InvalidType", name |-> name, expr |-> expr]
ParseError(msg) == [tag |-> "ParseError", msg |-> msg]
ScannerError(msg) == [tag |-> "ScannerError", msg |-> msg]
Panic == [tag |-> "Panic"]

OkR(v) == [ok |-> TRUE, val |-> v]
ErrR(e) == [ok |-> FALSE, err |-> e]

(***************************************************************************)
(* modules/utils.rs and the Display of a value.                            *)
(***************************************************************************)
\* A predicate that also takes the number 0 and the empty string for false.
is_truthy_zero_false(expr) ==
    ~(\/ expr.tag = "Nil"
      \/ (expr.tag = "Boolean" /\ expr.b = FALSE)
      \/ (expr.tag = "Number" /\ expr.n = 0)
      \/ (expr.tag = "String" /\ expr.s = ""))

is_truthy(expr) ==
    ~(expr.tag = "Nil" \/ (expr.tag = "Boolean" /\ expr.b = FALSE))

RECURSIVE JoinSpace(_)
JoinSpace(strs) ==
    IF Len(strs) = 0 THEN ""
    ELSE IF Len(strs) = 1 THEN strs[1]
    ELSE strs[1] \o " " \o JoinSpace(Tail(strs))

RECURSIVE Display(_)
Display(e) ==
    CASE e.tag = "Number" -> Float_display(e)
      [] e.tag = "Symbol" -> e.name
      [] e.tag = "Keyword" -> e.k
      [] e.tag = "String" -> e.s
      [] e.tag = "Boolean" -> IF e.b THEN "true" ELSE "false"
      [] e.tag = "Vector" ->
            "[" \o JoinSpace([i \in 1..Len(e.items) |-> Display(e.items[i])]) \o "]"
      [] e.tag = "Map" ->
            "{" \o JoinSpace([i \in 1..Len(e.entries) |->
                                Display(e.entries[i][1]) \o " " \o Display(e.entries[i][2])])
                \o "}"
      [] e.tag = "Nil" -> "nil"
      [] OTHER -> ToString(e)

\* args.iter().step_by(2): positions 0, 2, 4, ... (1, 3, 5, ... here).
EveryOther(args) ==
    [i \in 1..((Len(args) + 1) \div 2) |-> args[2 * i - 1]]

\* A method_id that joins the display of every element, arguments included.
method_id_all(args) ==
    JoinSpace([i \in 1..Len(args) |-> Display(args[i])])

method_id(args) ==
    JoinSpace([i \in 1..((Len(args) + 1) \div 2) |-> Display(EveryOther(args)[i])])

\* args.iter().skip(1).step_by(2): positions 1, 3, 5, ... (2, 4, ... here).
method_args(args) ==
    [i \in 1..(Len(args) \div 2) |-> args[2 * i]]

\* Expr::id
Expr_id(e) == IF e.tag = "Symbol" THEN e.name ELSE ToString(e)

(***************************************************************************)
(* expr.rs: equality and order of values.                                  *)
(***************************************************************************)
\* impl PartialEq for Expr: metadata is left out; NativeFn, Fn and Method
\* are equal when their ids are.
RECURSIVE Expr_eq(_, _)
Vec_eq(x, y) ==
    Len(x) = Len(y) /\ \A i \in 1..Len(x) : Expr_eq(x[i], y[i])

\* PartialEq of BTreeMap: the same length and equal entries in iteration order.
HMap_eq(x, y) ==
    /\ Len(x) = Len(y)
    /\ \A i \in 1..Len(x) : Expr_eq(x[i][1], y[i][1]) /\ Expr_eq(x[i][2], y[i][2])

\* An equality that takes the metadata into account.
Expr_eq_with_meta(a, b) == a = b

Expr_eq(a, b) ==
    IF a.tag # b.tag THEN FALSE
    ELSE CASE a.tag = "Symbol" -> a.name = b.name
           [] a.tag = "Map" -> HMap_eq(a.entries, b.entries)
           [] a.tag = "Vector" -> Vec_eq(a.items, b.items)
           [] a.tag = "Boolean" -> a.b = b.b
           [] a.tag = "Number" -> a.n = b.n /\ a.d = b.d
           [] a.tag = "String" -> a.s = b.s
           [] a.tag = "Keyword" -> a.k = b.k
           [] a.tag \in {"List", "MethodList"} -> Vec_eq(a.items, b.items)
           [] a.tag \in {"NativeFn", "Fn", "Method"} -> a.id = b.id
           [] OTHER -> TRUE

\* Ordering as an integer: Less is -1, Equal is 0, Greater is 1.
Ordering(a, b) == IF a < b THEN -1 ELSE IF a > b THEN 1 ELSE 0

\* Ordering::then
Then(c, d) == IF c # 0 THEN c ELSE d

\* str::cmp is the byte order; the strings that the model compares, in it.
StringsInOrder == <<"", "+", ":a", ":b", ":k", "a", "b", "f", "x", "y">>
str_cmp(a, b) ==
    IF a = b THEN 0
    ELSE Ordering(CHOOSE i \in 1..Len(StringsInOrder) : StringsInOrder[i] = a,
                  CHOOSE i \in 1..Len(StringsInOrder) : StringsInOrder[i] = b)

\* #[derive(PartialOrd, Ord)] on enum Expr: the variants in declaration order.
VariantsInOrder ==
    <<"List", "MethodList", "Number", "Boolean", "String", "Keyword", "Symbol",
      "Vector", "Map", "NativeFn", "Fn", "Method", "Ampersand", "Nil">>
Variant(e) == CHOOSE i \in 1..Len(VariantsInOrder) : VariantsInOrder[i] = e.tag

\* The entries of an HMap as one sequence k1, v1, k2, v2, ...: comparing
\* these is comparing the sequences of (key, value) tuples.
Flat(m) == [i \in 1..(2 * Len(m)) |-> m[(i + 1) \div 2][2 - (i % 2)]]

\* #[derive(Ord)] on enum Expr: the variant first, then the fields in order,
\* metadata included.  Vec and BTreeMap compare lexicographically.
RECURSIVE Expr_cmp(_, _)
RECURSIVE Vec_cmp(_, _, _)
Vec_cmp(x, y, i) ==
    IF i > Len(x) \/ i > Len(y) THEN Ordering(Len(x), Len(y))
    ELSE Then(Expr_cmp(x[i], y[i]), Vec_cmp(x, y, i + 1))

HMap_cmp(x, y) == Vec_cmp(Flat(x), Flat(y), 1)

Expr_cmp(a, b) ==
    IF a.tag # b.tag THEN Ordering(Variant(a), Variant(b))
    ELSE CASE a.tag \in {"List", "MethodList"} -> Vec_cmp(a.items, b.items, 1)
           [] a.tag = "Number" ->
                IF a = b THEN 0
                ELSE IF is_nan(a) THEN 1
                ELSE IF is_nan(b) THEN -1
                ELSE IF Float_lt(a, b) THEN -1 ELSE 1
           [] a.tag = "Boolean" -> Ordering(IF a.b THEN 1 ELSE 0, IF b.b THEN 1 ELSE 0)
           [] a.tag = "String" -> str_cmp(a.s, b.s)
           [] a.tag = "Keyword" -> str_cmp(a.k, b.k)
           [] a.tag = "Symbol" -> Then(str_cmp(a.name, b.name), HMap_cmp(a.meta, b.meta))
           [] a.tag = "Vector" ->
                Then(Vec_cmp(a.items, b.items, 1), HMap_cmp(a.meta, b.meta))
           [] a.tag = "Map" ->
                Then(HMap_cmp(a.entries, b.entries), HMap_cmp(a.meta, b.meta))
           [] a.tag \in {"NativeFn", "Fn", "Method"} -> str_cmp(a.id, b.id)
           [] OTHER -> 0

\* BTreeMap::insert from entry i on: an entry whose key compares Equal keeps
\* its key and takes the new value; otherwise the entry goes in key order.
RECURSIVE HMap_insert_from(_, _, _, _)
HMap_insert_from(m, i, k, v) ==
    IF i > Len(m) THEN Append(m, <<k, v>>)
    ELSE IF Expr_cmp(k, m[i][1]) = 0 THEN [m EXCEPT ![i] = <<m[i][1], v>>]
    ELSE IF Expr_cmp(k, m[i][1]) < 0
    THEN SubSeq(m, 1, i - 1) \o <<<<k, v>>>> \o SubSeq(m, i, Len(m))
    ELSE HMap_insert_from(m, i + 1, k, v)

HMap_insert(m, k, v) == HMap_insert_from(m, 1, k, v)

(***************************************************************************)
(* env.rs: a scope is [vars, methods, enclosing]; the heap `sc` is a       *)
(* sequence of scopes.                                                     *)
(***************************************************************************)
EmptyMap == <<>>

\* Env::new
Env_new == [vars |-> EmptyMap, methods |-> EmptyMap, enclosing |-> 0]

\* Env::extend followed by into_ref: the new scope is the last of the heap.
Env_extend(sc, env_ref) ==
    Append(sc, [vars |-> EmptyMap, methods |-> EmptyMap, enclosing |-> env_ref])

\* A def that writes where the name is already bound, like set.
RECURSIVE Env_def_nearest(_, _, _, _)
Env_def_nearest(sc, env, key, value) ==
    IF key \in DOMAIN sc[env].vars \/ sc[env].enclosing = 0
    THEN [sc EXCEPT ![env].vars = (key :> value) @@ @]
    ELSE Env_def_nearest(sc, sc[env].enclosing, key, value)

\* Env::def
Env_def(sc, env, key, value) ==
    [sc EXCEPT ![env].vars = (key :> value) @@ @]

\* Env::defm
\* A defm that puts the method in front of the ones already registered.
Env_defm_front(sc, env, name, method) ==
    [sc EXCEPT ![env].methods =
        (name :> (<<method>> \o (IF name \in DOMAIN @ THEN @[name] ELSE <<>>))) @@ @]

Env_defm(sc, env, name, method) ==
    [sc EXCEPT ![env].methods =
        (name :> Append(IF name \in DOMAIN @ THEN @[name] ELSE <<>>, method)) @@ @]

\* A get that asks the enclosing scope before its own map.
RECURSIVE Env_get_outer_first(_, _, _)
Env_get_outer_first(sc, env, key) ==
    LET outer == IF sc[env].enclosing # 0
                 THEN Env_get_outer_first(sc, sc[env].enclosing, key)
                 ELSE [ok |-> FALSE, err |-> [tag |-> "UnboundVar", name |-> key]]
    IN IF outer.ok THEN outer
       ELSE IF key \in DOMAIN sc[env].vars
            THEN [ok |-> TRUE, val |-> sc[env].vars[key]]
            ELSE outer

\* Env::get
RECURSIVE Env_get(_, _, _)
Env_get(sc, env, key) ==
    IF key \notin DOMAIN sc[env].vars /\ sc[env].enclosing # 0
    THEN Env_get(sc, sc[env].enclosing, key)
    ELSE IF key \in DOMAIN sc[env].vars
         THEN OkR(sc[env].vars[key])
         ELSE ErrR(UnboundVar(key))

\* A get_methods that appends the lists of the enclosing scopes to its own.
RECURSIVE Env_get_methods_merged(_, _, _)
Env_get_methods_merged(sc, env, key) ==
    LET own == IF key \in DOMAIN sc[env].methods THEN sc[env].methods[key] ELSE <<>>
        outer == IF sc[env].enclosing # 0
                 THEN Env_get_methods_merged(sc, sc[env].enclosing, key)
                 ELSE [ok |-> FALSE, err |-> [tag |-> "UnboundMethod", name |-> key]]
    IN IF outer.ok THEN [ok |-> TRUE, list |-> own \o outer.list]
       ELSE IF own # <<>> THEN [ok |-> TRUE, list |-> own]
       ELSE outer

\* Env::get_methods
RECURSIVE Env_get_methods(_, _, _)
Env_get_methods(sc, env, key) ==
    IF key \notin DOMAIN sc[env].methods /\ sc[env].enclosing # 0
    THEN Env_get_methods(sc, sc[env].enclosing, key)
    ELSE IF key \in DOMAIN sc[env].methods
         THEN [ok |-> TRUE, list |-> sc[env].methods[key]]
         ELSE ErrR(UnboundMethod(key))

\* A set that inserts into the root scope when no scope binds the name.
RECURSIVE Env_set_inserts(_, _, _, _)
Env_set_inserts(sc, env, key, value) ==
    IF key \in DOMAIN sc[env].vars \/ sc[env].enclosing = 0
    THEN [sc |-> [sc EXCEPT ![env].vars = (key :> value) @@ @],
          res |-> [ok |-> TRUE, val |-> value]]
    ELSE Env_set_inserts(sc, sc[env].enclosing, key, value)

\* Env::set: the heap after the call and its result (Ok holds the old value).
RECURSIVE Env_set(_, _, _, _)
Env_set(sc, env, key, value) ==
    IF key \in DOMAIN sc[env].vars
    THEN [sc |-> [sc EXCEPT ![env].vars[key] = value],
          res |-> OkR(sc[env].vars[key])]
    ELSE IF sc[env].enclosing # 0
         THEN Env_set(sc, sc[env].enclosing, key, value)
         ELSE [sc |-> sc, res |-> ErrR(SetUninitializedVar(key))]

(***************************************************************************)
(* The evaluator threads a machine state `ms` through every call:          *)
(*   sc    the heap of scopes                                              *)
(*   log   the events of this evaluation, in the order they happen; a call *)
(*         and an arity failure record the heap they found                 *)
(*   depth the nesting depth of the eval_expr call in progress             *)
(*   res   the Result of the call that has just returned                   *)
(***************************************************************************)
EvalEv(expr, env, depth) == [ev |-> "eval", expr |-> expr, env |-> env, depth |-> depth]
CallEv(f, args, env, heap) ==
    [ev |-> "call", f |-> f, args |-> args, env |-> env, heap |-> heap]
ArityEv(f, heap) == [ev |-> "arity", f |-> f, heap |-> heap]
ActivateEv(f, scope, enclosing) ==
    [ev |-> "activate", f |-> f, scope |-> scope, enclosing |-> enclosing]
BoundEv(f, scope, bound) == [ev |-> "bound", f |-> f, scope |-> scope, bound |-> bound]

Log(ms, event) == [ms EXCEPT !.log = Append(@, event)]
Ok(ms, v) == [ms EXCEPT !.res = OkR(v)]
Fail(ms, e) == [ms EXCEPT !.res = ErrR(e)]

\* The `?` operator: an Err returns at once, an Ok goes on with K.
Try(r, K(_)) == IF r.res.ok THEN K(r) ELSE r

\* Option::None, for Result<Option<Method>, HError> and Option<&Expr>.
None == [tag |-> "None"]

\* evaluator.rs resolve
resolve(expr, env, sc) ==
    IF expr.tag = "Symbol"
    THEN Env_get(sc, env, expr.name)
    ELSE ErrR(UnexpectedForm("Only symbols are resolvable", expr))

\* The index of the first Ampersand of a parameter vector, 0 when it has none.
FirstAmpersand(fn_args) ==
    IF \E i \in 1..Len(fn_args) : fn_args[i].tag = "Ampersand"
    THEN CHOOSE i \in 1..Len(fn_args) :
            /\ fn_args[i].tag = "Ampersand"
            /\ \A j \in 1..(i - 1) : fn_args[j].tag # "Ampersand"
    ELSE 0

\* special_forms.rs function: the Result of building a Fn (no evaluation).
function(args, env) ==
    IF args[1].tag # "Vector"
    THEN ErrR(UnexpectedForm("Expected an argument vector", args[1]))
    ELSE LET fn_args == args[1].items
             amp == FirstAmpersand(fn_args)
             arity == IF amp = 0 THEN Count(Len(fn_args)) ELSE Range(amp - 1, UsizeMax)
             code == IF Len(args) > 1 THEN Tail(args) ELSE <<Nil>>
         IN IF amp # 0 /\ Len(fn_args) # amp + 1
            THEN ErrR(UnexpectedForm("In fn declaration, & can only proceed one symbol",
                                     Ampersand))
            ELSE OkR([tag |-> "Fn",
                      id |-> ToString(fn_args) \o "_" \o ToString(code),
                      arity |-> arity,
                      args |-> fn_args,
                      function |-> code,
                      closure |-> env])

\* math.rs operator!: `result = result $op check_num(expr, $name)?`
Operate(name, a, b) ==
    CASE name = "+" -> Float_add(a, b)
      [] name = "-" -> Float_sub(a, b)
      [] name = "*" -> Float_mul(a, b)
      [] name = "/" -> Float_div(a, b)

\* A fold that goes over the arguments from the last to the first.
RECURSIVE NumFold_right(_, _, _, _)
NumFold_right(resolved, i, acc, name) ==
    IF i > Len(resolved) THEN OkR(acc)
    ELSE IF resolved[i].tag # "Number" THEN ErrR(InvalidType(name, resolved[i]))
    ELSE IF NumFold_right(resolved, i + 1, acc, name).ok
    THEN OkR(Operate(name, resolved[i], NumFold_right(resolved, i + 1, acc, name).val))
    ELSE NumFold_right(resolved, i + 1, acc, name)

\* modules/utils.rs check_num folded over the resolved arguments of an
\* arithmetic operator, from argument i on; acc is the result so far.
RECURSIVE NumFold(_, _, _, _)
NumFold(resolved, i, acc, name) ==
    IF i > Len(resolved) THEN OkR(acc)
    ELSE IF resolved[i].tag # "Number" THEN ErrR(InvalidType(name, resolved[i]))
    ELSE NumFold(resolved, i + 1, Operate(name, acc, resolved[i]), name)

\* Env::extend for an activation: the fresh scope is the last of the heap.
Activate(f, env_ref, ms) ==
    LET sc == Env_extend(ms.sc, env_ref)
    IN Log([ms EXCEPT !.sc = sc], ActivateEv(f, Len(sc), sc[Len(sc)].enclosing))

\* arg_env.def(key, value) on the machine state.
DefIn(ms, env, key, value) == [ms EXCEPT !.sc = Env_def(ms.sc, env, key, value)]

RECURSIVE eval_expr(_, _, _)
RECURSIVE eval_exprs_loop(_, _, _, _)
RECURSIVE resolve_args_loop(_, _, _, _, _)
RECURSIVE resolve_map_loop(_, _, _, _, _)
RECURSIVE methods_loop(_, _, _, _, _)
RECURSIVE NativeFn_call(_, _, _, _)
RECURSIVE Fn_call(_, _, _, _)
RECURSIVE Fn_bind(_, _, _, _, _, _)
RECURSIVE Method_call(_, _, _, _, _)
RECURSIVE Method_bind(_, _, _, _, _, _)

\* An eval_exprs that takes the forms last to first.
RECURSIVE eval_exprs_backwards(_, _, _, _)
eval_exprs_backwards(exprs, i, env, ms) ==
    IF i > Len(exprs) THEN ms
    ELSE Try(eval_expr(exprs[Len(exprs) + 1 - i], env, ms),
             LAMBDA r : eval_exprs_backwards(exprs, i + 1, env, r))

\* evaluator.rs eval_exprs: `result = eval_expr(expr)?` for each expr.
eval_exprs_loop(exprs, i, env, ms) ==
    IF i > Len(exprs) THEN ms
    ELSE Try(eval_expr(exprs[i], env, ms),
             LAMBDA r : eval_exprs_loop(exprs, i + 1, env, r))

eval_exprs(exprs, env, ms) == eval_exprs_loop(exprs, 1, env, Ok(ms, Nil))

\* A resolve_args that goes from the last argument to the first.
RECURSIVE resolve_args_loop_backwards(_, _, _, _, _)
resolve_args_loop_backwards(args, i, env, ms, acc) ==
    IF i > Len(args) THEN [ms EXCEPT !.res = [ok |-> TRUE, vals |-> acc]]
    ELSE Try(eval_expr(args[Len(args) + 1 - i], env, ms),
             LAMBDA r : resolve_args_loop_backwards(args, i + 1, env, r,
                                                    <<r.res.val>> \o acc))

\* evaluator.rs resolve_args: evaluates left to right, stops at the first Err.
resolve_args_loop(args, i, env, ms, acc) ==
    IF i > Len(args) THEN [ms EXCEPT !.res = [ok |-> TRUE, vals |-> acc]]
    ELSE Try(eval_expr(args[i], env, ms),
             LAMBDA r : resolve_args_loop(args, i + 1, env, r, Append(acc, r.res.val)))

resolve_args(args, env, ms) == resolve_args_loop(args, 1, env, ms, <<>>)

\* evaluator.rs eval_expr, Map: each key and then its value are evaluated, in
\* key order, and collected into a new BTreeMap; the first Err ends it.
resolve_map_loop(entries, i, env, ms, acc) ==
    IF i > Len(entries) THEN Ok(ms, Map(acc))
    ELSE Try(eval_expr(entries[i][1], env, ms),
             LAMBDA k :
                Try(eval_expr(entries[i][2], env, k),
                    LAMBDA v : resolve_map_loop(entries, i + 1, env, v,
                                                HMap_insert(acc, k.res.val, v.res.val))))

\* evaluator.rs get_first_method_matching: the match value of one candidate
\* decides between returning it and trying the next.
methods_next(methods, i, this, env, r) ==
    IF is_truthy(r.res.val) THEN Ok(r, methods[i])
    ELSE methods_loop(methods, i + 1, this, env, r)

\* A dispatch that tries the candidates from the last registered to the first.
RECURSIVE methods_loop_newest_first(_, _, _, _, _)
methods_loop_newest_first(methods, i, this, env, ms) ==
    LET m == methods[Len(methods) + 1 - i]
        next(r) == IF is_truthy(r.res.val) THEN Ok(r, m)
                   ELSE methods_loop_newest_first(methods, i + 1, this, env, r)
    IN IF i > Len(methods) THEN Ok(ms, None)
       ELSE IF m.selector.tag = "NativeFn"
       THEN Try(NativeFn_call(m.selector, <<this>>, env, ms), next)
       ELSE IF m.selector.tag = "Fn"
       THEN Try(Fn_call(m.selector, <<this>>, env, ms), next)
       ELSE next(Ok(ms, m.selector))

methods_loop(methods, i, this, env, ms) ==
    IF i > Len(methods) THEN Ok(ms, None)
    ELSE IF methods[i].selector.tag = "NativeFn"
    THEN Try(NativeFn_call(methods[i].selector, <<this>>, env, ms),
             LAMBDA r : methods_next(methods, i, this, env, r))
    ELSE IF methods[i].selector.tag = "Fn"
    THEN Try(Fn_call(methods[i].selector, <<this>>, env, ms),
             LAMBDA r : methods_next(methods, i, this, env, r))
    ELSE methods_next(methods, i, this, env, Ok(ms, methods[i].selector))

methods_found(methods, this, env, ms) ==
    IF ~methods.ok THEN Fail(ms, methods.err)
    ELSE methods_loop(methods.list, 1, this, env, ms)

get_first_method_matching(id, this, env, ms) ==
    methods_found(Env_get_methods(ms.sc, env, id), this, env, ms)

\* A List evaluation that evaluates the tail before it looks at the head.
call_resolved_eager(fun, args, env, ms) ==
    Try(resolve_args(args, env, ms),
        LAMBDA r :
            IF ~fun.ok THEN Fail(r, fun.err)
            ELSE IF fun.val.tag = "NativeFn" THEN NativeFn_call(fun.val, args, env, r)
            ELSE IF fun.val.tag = "Fn" THEN Fn_call(fun.val, args, env, r)
            ELSE Fail(r, NotAFunction(Display(fun.val))))

\* evaluator.rs eval_expr, List: the resolved head is called.
call_resolved(fun, args, env, ms) ==
    IF ~fun.ok THEN Fail(ms, fun.err)
    ELSE IF fun.val.tag = "NativeFn" THEN NativeFn_call(fun.val, args, env, ms)
    ELSE IF fun.val.tag = "Fn" THEN Fn_call(fun.val, args, env, ms)
    ELSE Fail(ms, NotAFunction(Display(fun.val)))

\* evaluator.rs eval_expr, MethodList: the method found is invoked.
call_found(found, id, args, env, this) ==
    IF found.res.val.tag = "Method"
    THEN Method_call(found.res.val, args, env, this, found)
    ELSE Fail(found, NotAMethod(id))

\* evaluator.rs eval_expr, by variant.
eval_case(expr, env, ms) ==
    CASE expr.tag = "List" ->
            IF Len(expr.items) = 0
            THEN Fail(ms, InvalidEmptyList(
                    "An empty list is invalid. Should this be a function call?"))
            ELSE call_resolved(resolve(Head(expr.items), env, ms.sc),
                               Tail(expr.items), env, ms)
      [] expr.tag = "MethodList" ->
            IF Len(expr.items) = 0
            THEN Fail(ms, InvalidEmptyList(
                    "An empty method list is invalid. Should this be a method call?"))
            ELSE Try(get_first_method_matching(method_id(Tail(expr.items)),
                                               Head(expr.items), env, ms),
                     LAMBDA found : call_found(found, method_id(Tail(expr.items)),
                                               method_args(Tail(expr.items)), env,
                                               Head(expr.items)))
      [] expr.tag = "Symbol" ->
            IF Env_get(ms.sc, env, expr.name).ok
            THEN Ok(ms, Env_get(ms.sc, env, expr.name).val)
            ELSE Fail(ms, UnboundVar(expr.name))
      [] expr.tag = "Map" -> resolve_map_loop(expr.entries, 1, env, ms, HMap_new)
      [] expr.tag = "Vector" ->
            Try(resolve_args(expr.items, env, ms), LAMBDA r : Ok(r, Vector(r.res.vals)))
      [] OTHER -> Ok(ms, expr)

\* The depth of the caller is restored when eval_expr returns.
Returned(r, depth) == [r EXCEPT !.depth = depth]

\* evaluator.rs eval_expr: one logged call, one level deeper for what it calls.
eval_expr(expr, env, ms) ==
    Returned(eval_case(expr, env,
                       [Log(ms, EvalEv(expr, env, ms.depth)) EXCEPT !.depth = ms.depth + 1]),
             ms.depth)

\* impl Callable for Fn: the loop over self.args, from parameter i on.
Fn_bind(f, args, i, env, arg_env, ms) ==
    IF i > Len(f.args) THEN Ok(ms, Nil)
    ELSE IF f.args[i].tag = "Symbol"
    THEN Try(eval_expr(args[i], env, ms),
             LAMBDA r : Fn_bind(f, args, i + 1, env, arg_env,
                                DefIn(r, arg_env, f.args[i].name, r.res.val)))
    ELSE IF f.args[i].tag = "Ampersand"
    THEN Ok(DefIn(ms, arg_env, Expr_id(f.args[i + 1]), Vector(SubSeq(args, i, Len(args)))),
            Nil)
    ELSE Fail(ms, UnexpectedForm("Expected a symbol argument", f.args[i]))

\* impl Callable for Fn, after the arity check: `activated` holds arg_env as
\* the last scope of its heap.
Fn_run(f, args, env, activated) ==
    Try(Fn_bind(f, args, 1, env, Len(activated.sc), activated),
        LAMBDA b : eval_exprs(f.function, Len(activated.sc),
                              Log(b, BoundEv(f, Len(activated.sc),
                                             b.sc[Len(activated.sc)].vars))))

\* A Fn call that binds its parameters first and checks the count after.
Fn_call_late_check(f, args, env, ms) ==
    IF Len(args) < Len(f.args)
    THEN Fail(Log(Log(ms, CallEv(f, args, env, ms.sc)), ArityEv(f, ms.sc)),
              InvalidArity(f.id, f.arity))
    ELSE Try(Fn_bind(f, args, 1, env, Len(ms.sc) + 1,
                     Activate(f, env, Log(ms, CallEv(f, args, env, ms.sc)))),
             LAMBDA b : IF ~Arity_check(f.arity, args)
                        THEN Fail(Log(b, ArityEv(f, b.sc)), InvalidArity(f.id, f.arity))
                        ELSE eval_exprs(f.function, Len(ms.sc) + 1, b))

\* impl Callable for Fn
Fn_call(f, args, env, ms) ==
    IF ~Arity_check(f.arity, args)
    THEN Fail(Log(Log(ms, CallEv(f, args, env, ms.sc)), ArityEv(f, ms.sc)), InvalidArity(f.id, f.arity))
    ELSE Fn_run(f, args, env, Activate(f, env, Log(ms, CallEv(f, args, env, ms.sc))))

\* impl Callable for Method: the loop over self.args, from parameter i on.
Method_bind(m, args, i, env, arg_env, ms) ==
    IF i > Len(m.args) THEN Ok(ms, Nil)
    ELSE IF m.args[i].tag = "Symbol"
    THEN Try(eval_expr(args[i], env, ms),
             LAMBDA r : Method_bind(m, args, i + 1, env, arg_env,
                                    DefIn(r, arg_env, m.args[i].name, r.res.val)))
    ELSE Fail(ms, UnexpectedForm("Expected a symbol argument", m.args[i]))

\* A Method call that binds the parameters first and `this` after them.
Method_run_this_last(m, args, env, this, activated) ==
    IF this.tag = "None"
    THEN Fail(activated, UnboundVar("No 'this' set for method"))
    ELSE Try(Method_bind(m, args, 1, env, Len(activated.sc), activated),
         LAMBDA b :
            Try(eval_expr(this, env, b),
                LAMBDA t : eval_exprs(m.function, Len(activated.sc),
                                      Log(DefIn(t, Len(activated.sc), "this", t.res.val),
                                          BoundEv(m, Len(activated.sc),
                                                  DefIn(t, Len(activated.sc), "this",
                                                        t.res.val).sc[Len(activated.sc)].vars)))))

\* impl Callable for Method, after the arity check.
Method_run(m, args, env, this, activated) ==
    IF this.tag = "None"
    THEN Fail(activated, UnboundVar("No 'this' set for method"))
    ELSE Try(eval_expr(this, env, activated),
         LAMBDA t :
            Try(Method_bind(m, args, 1, env, Len(activated.sc),
                            DefIn(t, Len(activated.sc), "this", t.res.val)),
                LAMBDA b : eval_exprs(m.function, Len(activated.sc),
                                      Log(b, BoundEv(m, Len(activated.sc),
                                                     b.sc[Len(activated.sc)].vars)))))

\* impl Callable for Method
Method_call(m, args, env, this, ms) ==
    IF ~Arity_check(m.arity, args)
    THEN Fail(Log(Log(ms, CallEv(m, args, env, ms.sc)), ArityEv(m, ms.sc)), InvalidArity(m.id, m.arity))
    ELSE Method_run(m, args, env, this, Activate(m, env, Log(ms, CallEv(m, args, env, ms.sc))))

(***************************************************************************)
(* modules/special_forms.rs, math.rs, data.rs: the native callables.       *)
(***************************************************************************)
\* "var": &args[1] is indexed before env.def; with one argument it is out of
\* bounds and the process panics.
native_var(args, env, ms) ==
    IF args[1].tag = "Symbol"
    THEN IF Len(args) < 2 THEN Fail(ms, Panic)
         ELSE Try(eval_expr(args[2], env, ms),
                  LAMBDA r : Ok(DefIn(r, env, args[1].name, r.res.val), Nil))
    ELSE Fail(ms, UnexpectedForm("Only symbols can be defined", args[1]))

\* An `if` that evaluates both arms and then picks a value.
if_arm_eager(args, env, condition) ==
    Try(eval_expr(args[2], env, condition),
        LAMBDA t :
           IF Len(args) = 3
           THEN Try(eval_expr(args[3], env, t),
                    LAMBDA e : IF is_truthy(condition.res.val) THEN Ok(e, t.res.val) ELSE e)
           ELSE IF is_truthy(condition.res.val) THEN t ELSE Ok(t, [tag |-> "Nil"]))

\* "if": the arm chosen by the value of the condition.
if_arm(args, env, condition) ==
    IF is_truthy(condition.res.val) THEN eval_expr(args[2], env, condition)
    ELSE IF Len(args) = 3 THEN eval_expr(args[3], env, condition)
    ELSE Ok(condition, Nil)

\* "if"
native_if(args, env, ms) ==
    Try(eval_expr(args[1], env, ms), LAMBDA condition : if_arm(args, env, condition))

\* "set!": env.set(name, value)?
set_in(r, s) ==
    IF s.res.ok THEN Ok([r EXCEPT !.sc = s.sc], Nil) ELSE Fail(r, s.res.err)

\* "set!"
native_set(args, env, ms) ==
    IF args[1].tag = "Symbol"
    THEN Try(eval_expr(args[2], env, ms),
             LAMBDA r : set_in(r, Env_set(r.sc, env, args[1].name, r.res.val)))
    ELSE Fail(ms, UnexpectedForm("Only symbols can be set", args[1]))

\* "fn", and the tail of "defn": the Fn that function() built, or its error.
native_fn(fun_expr, ms) ==
    IF fun_expr.ok THEN Ok(ms, fun_expr.val) ELSE Fail(ms, fun_expr.err)

defn_bind(name, fun_expr, env, ms) ==
    IF fun_expr.ok THEN Ok(DefIn(ms, env, name, fun_expr.val), Nil)
    ELSE Fail(ms, fun_expr.err)

\* "defn"
native_defn(args, env, ms) ==
    IF args[1].tag # "Symbol"
    THEN Fail(ms, UnexpectedForm("\"defn\" requires a symbol for name", args[1]))
    ELSE defn_bind(args[1].name, function(Tail(args), env), env, ms)

\* "defm", once the selector is evaluated.
defm_register(args, env, sel) ==
    IF args[2].tag # "Vector"
    THEN Fail(sel, UnexpectedForm("Expected an argument vector", args[2]))
    ELSE IF Len(args[2].items) = 0
    THEN Fail(sel, UnexpectedForm("Expected at least one argument", args[2]))
    ELSE IF Len(args[2].items) > 1 /\ Len(args[2].items) % 2 = 1
    THEN Fail(sel, UnexpectedForm("Expected an even number of arguments", args[2]))
    ELSE Ok([sel EXCEPT !.sc =
                Env_defm(sel.sc, env, method_id(args[2].items),
                         [tag |-> "Method",
                          id |-> method_id(args[2].items),
                          selector |-> sel.res.val,
                          arity |-> Count(Len(method_args(args[2].items))),
                          args |-> method_args(args[2].items),
                          function |-> IF Len(args) > 2 THEN SubSeq(args, 3, Len(args))
                                       ELSE <<Nil>>,
                          closure |-> env])],
            Nil)

\* "defm"
native_defm(args, env, ms) ==
    Try(eval_expr(args[1], env, ms), LAMBDA sel : defm_register(args, env, sel))

\* math.rs operator!, on the resolved arguments.
operator_resolved(name, r) ==
    IF r.res.vals[1].tag # "Number"
    THEN Fail(r, InvalidType(name, r.res.vals[1]))
    ELSE [r EXCEPT !.res = NumFold(r.res.vals, 2, r.res.vals[1], name)]

\* math.rs operator!: "+", "-", "*" and "/"
native_operator(name, args, env, ms) ==
    Try(resolve_args(args, env, ms), LAMBDA r : operator_resolved(name, r))

\* math.rs operator!("+", +), on the resolved arguments.
add_resolved(r) == operator_resolved("+", r)

native_add(args, env, ms) == native_operator("+", args, env, ms)

\* data.rs "number?"
native_number_p(args, env, ms) ==
    Try(resolve_args(args, env, ms),
        LAMBDA r : Ok(r, Boolean(r.res.vals[1].tag = "Number")))

\* logic.rs num_operator!: `first $op check_num(expr, $name)?`
Compare(name, a, b) ==
    CASE name = "lt" -> Float_lt(a, b)
      [] name = "lte" -> Float_lte(a, b)
      [] name = "gt" -> Float_gt(a, b)
      [] name = "gte" -> Float_gte(a, b)

\* A loop that compares every argument against the one before it.
RECURSIVE num_operator_loop_neighbours(_, _, _)
num_operator_loop_neighbours(name, resolved, i) ==
    IF i > Len(resolved) THEN OkR(Boolean(TRUE))
    ELSE IF resolved[i].tag # "Number" THEN ErrR(InvalidType(name, resolved[i]))
    ELSE IF ~Compare(name, resolved[i - 1], resolved[i]) THEN OkR(Boolean(FALSE))
    ELSE num_operator_loop_neighbours(name, resolved, i + 1)

\* logic.rs num_operator!: the loop over resolved[1..]; each argument is
\* checked to be a Number when the loop reaches it, and the loop returns
\* false at the first comparison that does not hold.
RECURSIVE num_operator_loop(_, _, _)
num_operator_loop(name, resolved, i) ==
    IF i > Len(resolved) THEN OkR(Boolean(TRUE))
    ELSE IF resolved[i].tag # "Number" THEN ErrR(InvalidType(name, resolved[i]))
    ELSE IF ~Compare(name, resolved[1], resolved[i]) THEN OkR(Boolean(FALSE))
    ELSE num_operator_loop(name, resolved, i + 1)

\* logic.rs num_operator!, on the resolved arguments.
num_operator_resolved(name, r) ==
    IF r.res.vals[1].tag # "Number"
    THEN Fail(r, InvalidType(name, r.res.vals[1]))
    ELSE [r EXCEPT !.res = num_operator_loop(name, r.res.vals, 2)]

\* logic.rs num_operator!: "lt", "lte", "gt" and "gte"
native_num_operator(name, args, env, ms) ==
    Try(resolve_args(args, env, ms), LAMBDA r : num_operator_resolved(name, r))

\* logic.rs generic_operator!: `first op expr` must hold for every later
\* argument.
generic_eq(resolved) == \A i \in 2..Len(resolved) : Expr_eq(resolved[1], resolved[i])
generic_ne(resolved) == \A i \in 2..Len(resolved) : ~Expr_eq(resolved[1], resolved[i])

\* logic.rs "=" and "!="
native_eq(args, env, ms) ==
    Try(resolve_args(args, env, ms), LAMBDA r : Ok(r, Boolean(generic_eq(r.res.vals))))
native_ne(args, env, ms) ==
    Try(resolve_args(args, env, ms), LAMBDA r : Ok(r, Boolean(generic_ne(r.res.vals))))

\* "for-each": the callable itself, as the events of its scopes name it.
ForEach == NativeFn("for-each", Range(2, UsizeMax))

\* "for-each": Env::extend(env).into_ref() and new_env.def(var_name, expr).
for_each_scope(item, var_name, env, ms) ==
    LET sc == Env_def(Env_extend(ms.sc, env), Len(ms.sc) + 1, var_name, item)
    IN Log(Log([ms EXCEPT !.sc = sc], ActivateEv(ForEach, Len(sc), sc[Len(sc)].enclosing)),
           BoundEv(ForEach, Len(sc), sc[Len(sc)].vars))

\* A loop that binds its variable in the current scope and runs the body there.
RECURSIVE for_each_loop_same_scope(_, _, _, _, _, _)
for_each_loop_same_scope(items, i, var_name, body, env, ms) ==
    IF i > Len(items) THEN Ok(ms, Nil)
    ELSE Try(eval_exprs(body, env,
                        Log(Log(DefIn(ms, env, var_name, items[i]),
                                ActivateEv(ForEach, env, ms.sc[env].enclosing)),
                            BoundEv(ForEach, env, ms.sc[env].vars))),
             LAMBDA r : for_each_loop_same_scope(items, i + 1, var_name, body, env, r))

\* "for-each": the loop over the collection, from item i on; `?` on the body.
RECURSIVE for_each_loop(_, _, _, _, _, _)
for_each_loop(items, i, var_name, body, env, ms) ==
    IF i > Len(items) THEN Ok(ms, Nil)
    ELSE Try(eval_exprs(body, Len(ms.sc) + 1, for_each_scope(items[i], var_name, env, ms)),
             LAMBDA r : for_each_loop(items, i + 1, var_name, body, env, r))

\* "for-each", once the collection is evaluated: the variable must be a
\* Symbol; a Vector gives its elements, a Map the vectors [key value].
for_each_over(args, env, c) ==
    IF args[1].tag # "Symbol"
    THEN Fail(c, UnexpectedForm("Invalid variable name in for-each", args[1]))
    ELSE IF c.res.val.tag = "Vector"
    THEN for_each_loop(c.res.val.items, 1, args[1].name, SubSeq(args, 3, Len(args)), env, c)
    ELSE IF c.res.val.tag = "Map"
    THEN for_each_loop([i \in 1..Len(c.res.val.entries) |->
                           Vector(<<c.res.val.entries[i][1], c.res.val.entries[i][2]>>)],
                       1, args[1].name, SubSeq(args, 3, Len(args)), env, c)
    ELSE Fail(c, UnexpectedForm("Invalid collection", c.res.val))

\* "for-each"
native_for_each(args, env, ms) ==
    Try(eval_expr(args[2], env, ms), LAMBDA c : for_each_over(args, env, c))

\* The host function pointer of a NativeFn, by its name.
Native_function(id, args, env, ms) ==
    CASE id = "var" -> native_var(args, env, ms)
      [] id = "if" -> native_if(args, env, ms)
      [] id = "set!" -> native_set(args, env, ms)
      [] id = "fn" -> native_fn(function(args, env), ms)
      [] id = "defn" -> native_defn(args, env, ms)
      [] id = "defm" -> native_defm(args, env, ms)
      [] id = "+" -> native_add(args, env, ms)
      [] id \in {"-", "*", "/"} -> native_operator(id, args, env, ms)
      [] id = "number?" -> native_number_p(args, env, ms)
      [] id = "for-each" -> native_for_each(args, env, ms)
      [] id \in {"lt", "lte", "gt", "gte"} -> native_num_operator(id, args, env, ms)
      [] id = "=" -> native_eq(args, env, ms)
      [] id = "!=" -> native_ne(args, env, ms)

\* impl Callable for NativeFn
NativeFn_call(f, args, env, ms) ==
    IF ~Arity_check(f.arity, args)
    THEN Fail(Log(Log(ms, CallEv(f, args, env, ms.sc)), ArityEv(f, ms.sc)), InvalidArity(f.id, f.arity))
    ELSE Native_function(f.id, args, env, Log(ms, CallEv(f, args, env, ms.sc)))

\* The bindings of the core module that this model covers.
CoreVars ==
    [var |-> NativeFn("var", Range(1, 2)),
     if |-> NativeFn("if", Range(2, 3)),
     fn |-> NativeFn("fn", Range(1, UsizeMax)),
     defn |-> NativeFn("defn", Range(2, UsizeMax)),
     defm |-> NativeFn("defm", Range(2, UsizeMax))]
    @@ ("set!" :> NativeFn("set!", Count(2)))
    @@ ("+" :> NativeFn("+", Range(1, UsizeMax)))
    @@ ("-" :> NativeFn("-", Range(1, UsizeMax)))
    @@ ("*" :> NativeFn("*", Range(1, UsizeMax)))
    @@ ("/" :> NativeFn("/", Range(1, UsizeMax)))
    @@ ("number?" :> NativeFn("number?", Count(1)))
    @@ ("for-each" :> ForEach)
    @@ ("=" :> NativeFn("=", Range(2, UsizeMax)))
    @@ ("!=" :> NativeFn("!=", Range(2, UsizeMax)))
    @@ ("lt" :> NativeFn("lt", Range(2, UsizeMax)))
    @@ ("lte" :> NativeFn("lte", Range(2, UsizeMax)))
    @@ ("gt" :> NativeFn("gt", Range(2, UsizeMax)))
    @@ ("gte" :> NativeFn("gte", Range(2, UsizeMax)))

\* Env::with_core_module
Env_with_core_module == [vars |-> CoreVars, methods |-> EmptyMap, enclosing |-> 0]

(***************************************************************************)
(* Scopes are reference counted (EnvRef is an Rc): the activation scopes   *)
(* of an evaluation are dropped when it returns unless a closure that is   *)
(* still reachable holds them.                                             *)
(***************************************************************************)
SetMax(S) == IF S = {} THEN 0 ELSE CHOOSE x \in S : \A y \in S : y <= x

RECURSIVE MaxClosure(_)
MaxClosure(v) ==
    CASE v.tag = "Fn" -> v.closure
      [] v.tag = "Method" -> SetMax({v.closure, MaxClosure(v.selector)})
      [] v.tag = "Vector" -> SetMax({MaxClosure(v.items[i]) : i \in 1..Len(v.items)})
      [] v.tag = "Map" ->
            SetMax({MaxClosure(v.entries[i][j]) : i \in 1..Len(v.entries), j \in 1..2})
      [] OTHER -> 0

ScopeMaxClosure(scope) ==
    SetMax({MaxClosure(scope.vars[k]) : k \in DOMAIN scope.vars}
           \cup UNION {{MaxClosure(scope.methods[k][i]) : i \in 1..Len(scope.methods[k])} :
                          k \in DOMAIN scope.methods})

\* The scopes still referenced once an evaluation that began with `held`
\* scopes has returned `res`.
RECURSIVE Retained(_, _, _)
Retained(sc, held, res) ==
    LET reach == SetMax({ScopeMaxClosure(sc[i]) : i \in 1..held}
                        \cup {IF res.ok THEN MaxClosure(res.val) ELSE 0})
    IN IF reach > held THEN Retained(sc, reach, res) ELSE SubSeq(sc, 1, held)

(***************************************************************************)
(* scanner.rs: the source is a sequence of characters, each a string of    *)
(* length one; a token is a record with its type, its line and, for a      *)
(* literal or a symbol, its value.  The sources of this model hold whole   *)
(* numbers only, so the fraction of number() is left out.                  *)
(***************************************************************************)
\* The text that a sequence of characters spells.
RECURSIVE Spell(_)
Spell(chars) == IF Len(chars) = 0 THEN "" ELSE Head(chars) \o Spell(Tail(chars))

DigitChars == <<"0", "1", "2", "3", "4", "5", "6", "7", "8", "9">>

\* Scanner::is_digit
is_digit(c) == \E d \in 1..10 : DigitChars[d] = c

\* Scanner::is_alpha
is_alpha(c) ==
    c \in {"a", "b", "c", "d", "e", "f", "g", "h", "i", "j", "k", "l", "m",
           "n", "o", "p", "q", "r", "s", "t", "u", "v", "w", "x", "y", "z",
           "A", "B", "C", "D", "E", "F", "G", "H", "I", "J", "K", "L", "M",
           "N", "O", "P", "Q", "R", "S", "T", "U", "V", "W", "X", "Y", "Z",
           "_", "-", "*", "+", "!", "?", "/", "="}

\* Scanner::is_alpha_numeric
is_alpha_numeric(c) == is_alpha(c) \/ is_digit(c)

\* str::parse::<f64> on a run of digits.
RECURSIVE DigitsValue(_)
DigitsValue(chars) ==
    IF Len(chars) = 0 THEN 0
    ELSE 10 * DigitsValue(SubSeq(chars, 1, Len(chars) - 1))
         + (CHOOSE d \in 1..10 : DigitChars[d] = chars[Len(chars)]) - 1

\* `while is_digit(peek()) { advance() }`: the first position from j on that
\* is past the end or holds no digit.
RECURSIVE digits_end(_, _)
digits_end(src, j) ==
    IF j <= Len(src) /\ is_digit(src[j]) THEN digits_end(src, j + 1) ELSE j

\* `while is_alpha_numeric(peek()) { advance() }`
RECURSIVE alpha_numeric_end(_, _)
alpha_numeric_end(src, j) ==
    IF j <= Len(src) /\ is_alpha_numeric(src[j]) THEN alpha_numeric_end(src, j + 1) ELSE j

\* string(): `while peek() != '"' && !is_at_end() { advance() }`
RECURSIVE string_end(_, _)
string_end(src, j) ==
    IF j <= Len(src) /\ src[j] # "\"" THEN string_end(src, j + 1) ELSE j

\* The newlines of src from position i to position j.
Newlines(src, i, j) == Cardinality({k \in i..j : src[k] = "\n"})

Token(type, line) == [type |-> type, line |-> line]
ValueToken(type, value, line) == [type |-> type, value |-> value, line |-> line]

\* The one-character tokens of scan_token.
Punctuation ==
    ("(" :> "LeftParen") @@ (")" :> "RightParen") @@ ("<" :> "LeftAngle")
    @@ (">" :> "RightAngle") @@ ("{" :> "LeftCurly") @@ ("}" :> "RightCurly")
    @@ ("[" :> "LeftSquare") @@ ("]" :> "RightSquare") @@ ("&" :> "Ampersand")

\* symbol(): the token of the text from `start` up to, not including, `end`.
symbol_token(src, start, end, line) ==
    IF Spell(SubSeq(src, start, end - 1)) = "true" THEN ValueToken("Boolean", TRUE, line)
    ELSE IF Spell(SubSeq(src, start, end - 1)) = "false"
    THEN ValueToken("Boolean", FALSE, line)
    ELSE IF Spell(SubSeq(src, start, end - 1)) = "nil" THEN Token("Nil", line)
    ELSE IF src[end - 1] = ":"
    THEN ValueToken("Symbol", Spell(SubSeq(src, start, end - 2)), line)
    ELSE ValueToken("Symbol", Spell(SubSeq(src, start, end - 1)), line)

\* symbol(): the end of the symbol that starts at `start`, one optional
\* trailing ':' included.
symbol_end(src, start) ==
    IF alpha_numeric_end(src, start + 1) <= Len(src)
       /\ src[alpha_numeric_end(src, start + 1)] = ":"
    THEN alpha_numeric_end(src, start + 1) + 1
    ELSE alpha_numeric_end(src, start + 1)

\* scan_tokens and scan_token: from position i, on line `line`.
RECURSIVE scan_tokens(_, _, _, _)
scan_tokens(src, i, line, tokens) ==
    IF i > Len(src) THEN [ok |-> TRUE, tokens |-> Append(tokens, Token("EndOfFile", line))]
    ELSE IF src[i] \in DOMAIN Punctuation
    THEN scan_tokens(src, i + 1, line, Append(tokens, Token(Punctuation[src[i]], line)))
    ELSE IF src[i] = "\""
    THEN IF string_end(src, i + 1) > Len(src)
         THEN ErrR(ScannerError("Unterminated string"))
         ELSE scan_tokens(src, string_end(src, i + 1) + 1,
                          line + Newlines(src, i + 1, string_end(src, i + 1) - 1),
                          Append(tokens,
                                 ValueToken("String",
                                            Spell(SubSeq(src, i + 1, string_end(src, i + 1) - 1)),
                                            line + Newlines(src, i + 1,
                                                            string_end(src, i + 1) - 1))))
    ELSE IF src[i] = ":"
    THEN scan_tokens(src, alpha_numeric_end(src, i + 1), line,
                     Append(tokens,
                            ValueToken("Keyword",
                                       Spell(SubSeq(src, i, alpha_numeric_end(src, i + 1) - 1)),
                                       line)))
    ELSE IF src[i] \in {" ", "\r", "\t"} THEN scan_tokens(src, i + 1, line, tokens)
    ELSE IF src[i] = "\n" THEN scan_tokens(src, i + 1, line + 1, tokens)
    ELSE IF is_digit(src[i])
    THEN scan_tokens(src, digits_end(src, i + 1), line,
                     Append(tokens,
                            ValueToken("Number",
                                       DigitsValue(SubSeq(src, i, digits_end(src, i + 1) - 1)),
                                       line)))
    ELSE IF is_alpha(src[i])
    THEN scan_tokens(src, symbol_end(src, i), line,
                     Append(tokens, symbol_token(src, i, symbol_end(src, i), line)))
    ELSE ErrR(ScannerError("Unexpected character Some('" \o src[i] \o "')"))

\* scan
scan(input) == scan_tokens(input, 1, 1, <<>>)

(***************************************************************************)
(* parser.rs: a parse result is [pos, res]: the position of the next       *)
(* token and the expression, the expressions or the error.                 *)
(***************************************************************************)
Parsed(pos, res) == [pos |-> pos, res |-> res]

\* A parse_map for which a key seen again keeps the value it had.
RECURSIVE map_from_first_wins(_, _, _)
map_from_first_wins(expressions, i, map) ==
    IF i > Len(expressions) THEN map
    ELSE map_from_first_wins(expressions, i + 2,
            IF \E j \in 1..Len(map) : Expr_cmp(map[j][1], expressions[i]) = 0
            THEN map
            ELSE HMap_insert(map, expressions[i], expressions[i + 1]))

\* parse_map: `for pair in expressions.chunks(2) { map.insert(..) }`, the
\* pairs in source order, from expression i on.
RECURSIVE map_from(_, _, _)
map_from(expressions, i, map) ==
    IF i > Len(expressions) THEN map
    ELSE map_from(expressions, i + 2, HMap_insert(map, expressions[i], expressions[i + 1]))

\* parse_map, once the children are collected: an odd count is an error
\* that names the line of the opening brace.
parse_map(children, initial_token) ==
    IF Len(children.res.vals) % 2 = 0
    THEN Parsed(children.pos, OkR(Map(map_from(children.res.vals, 1, HMap_new))))
    ELSE Parsed(children.pos,
                ErrR(ParseError("A map must have an even number of elements! Map opened at line "
                                \o ToString(initial_token.line) \o ".")))

RECURSIVE parse_expression(_, _)

\* parse_vector and parse_map: `while !check(&close) { push(parse_expression()?) }`
\* and then match_token(close).
RECURSIVE parse_children(_, _, _, _)
parse_children(tokens, close, pos, expressions) ==
    IF tokens[pos].type = close
    THEN Parsed(pos + 1, [ok |-> TRUE, vals |-> expressions])
    ELSE Try(parse_expression(tokens, pos),
             LAMBDA e : parse_children(tokens, close, e.pos, Append(expressions, e.res.val)))

\* parse_expression at the token `pos`.
parse_expression(tokens, pos) ==
    CASE tokens[pos].type = "LeftParen" ->
            Try(parse_children(tokens, "RightParen", pos + 1, <<>>),
                LAMBDA c : Parsed(c.pos, OkR(List(c.res.vals))))
      [] tokens[pos].type = "LeftAngle" ->
            Try(parse_children(tokens, "RightAngle", pos + 1, <<>>),
                LAMBDA c : Parsed(c.pos, OkR(MethodList(c.res.vals))))
      [] tokens[pos].type = "LeftSquare" ->
            Try(parse_children(tokens, "RightSquare", pos + 1, <<>>),
                LAMBDA c : Parsed(c.pos, OkR(Vector(c.res.vals))))
      [] tokens[pos].type = "LeftCurly" ->
            Try(parse_children(tokens, "RightCurly", pos + 1, <<>>),
                LAMBDA c : parse_map(c, tokens[pos]))
      [] tokens[pos].type = "Number" -> Parsed(pos + 1, OkR(Number(tokens[pos].value)))
      [] tokens[pos].type = "Boolean" -> Parsed(pos + 1, OkR(Boolean(tokens[pos].value)))
      [] tokens[pos].type = "String" -> Parsed(pos + 1, OkR(String(tokens[pos].value)))
      [] tokens[pos].type = "Keyword" -> Parsed(pos + 1, OkR(Keyword(tokens[pos].value)))
      [] tokens[pos].type = "Symbol" -> Parsed(pos + 1, OkR(Symbol(tokens[pos].value)))
      [] tokens[pos].type = "Ampersand" -> Parsed(pos + 1, OkR(Ampersand))
      [] tokens[pos].type = "Nil" -> Parsed(pos + 1, OkR(Nil))
      [] OTHER -> Parsed(pos, ErrR(ParseError("Unexpected token " \o tokens[pos].type)))

\* Parser::parse: expressions until the EndOfFile token.
RECURSIVE parse_program(_, _, _)
parse_program(tokens, pos, program) ==
    IF tokens[pos].type = "EndOfFile" THEN [ok |-> TRUE, exprs |-> program]
    ELSE IF parse_expression(tokens, pos).res.ok
    THEN parse_program(tokens, parse_expression(tokens, pos).pos,
                       Append(program, parse_expression(tokens, pos).res.val))
    ELSE parse_expression(tokens, pos).res

\* parse: `scan(input)?` and then Parser::parse.
parse(input) ==
    IF scan(input).ok THEN parse_program(scan(input).tokens, 1, <<>>) ELSE scan(input)

(***************************************************************************)
(* Operations of the library on a shared environment.                      *)
(***************************************************************************)
Scopes == 1..Len(scopes)

\* The process is alive: no operation has panicked.
Alive == IF result.ok THEN TRUE ELSE result.err.tag # "Panic"

InitialMs == [sc |-> scopes, log |-> <<>>, depth |-> 0, res |-> OkR(Nil)]

RECURSIVE SeqSum(_)
SeqSum(s) == IF Len(s) = 0 THEN 0 ELSE Head(s) + SeqSum(Tail(s))

\* The number of methods registered in scope `scope`, over all identifiers.
ScopeMethods(scope) ==
    LET ids == DOMAIN scope.methods
        RECURSIVE Total(_)
        Total(S) == IF S = {} THEN 0
                    ELSE LET k == CHOOSE k \in S : TRUE
                         IN Len(scope.methods[k]) + Total(S \ {k})
    IN Total(ids)

TotalMethods(sc) == SeqSum([i \in 1..Len(sc) |-> ScopeMethods(sc[i])])

\* evaluator.rs eval, on the forms `exprs` that parse(input) returned.
Eval(exprs, env) ==
    LET ms == eval_exprs(exprs, env, InitialMs)
        kept == Retained(ms.sc, Len(scopes), ms.res)
    IN /\ Alive
       /\ env \in Scopes
       /\ Len(kept) <= MaxScopes
       /\ TotalMethods(kept) <= MaxMethods
       /\ scopes' = kept
       /\ result' = ms.res
       /\ log' = ms.log
       /\ last' = [op |-> "eval", exprs |-> exprs, env |-> env]

\* A reader that evaluates each form as soon as it is parsed.
RECURSIVE eval_form_by_form_loop(_, _, _, _)
eval_form_by_form_loop(tokens, pos, env, ms) ==
    IF tokens[pos].type = "EndOfFile" THEN ms
    ELSE IF ~parse_expression(tokens, pos).res.ok
    THEN Fail(ms, parse_expression(tokens, pos).res.err)
    ELSE Try(eval_expr(parse_expression(tokens, pos).res.val, env, ms),
             LAMBDA r : eval_form_by_form_loop(tokens, parse_expression(tokens, pos).pos,
                                               env, r))

eval_form_by_form(input, env, ms) ==
    IF scan(input).ok THEN eval_form_by_form_loop(scan(input).tokens, 1, env, Ok(ms, Nil))
    ELSE Fail(ms, scan(input).err)

\* evaluator.rs eval: `let exprs = parse(input)?; eval_exprs(&exprs, env)`
eval(input, env, ms) ==
    IF parse(input).ok THEN eval_exprs(parse(input).exprs, env, ms)
    ELSE Fail(ms, parse(input).err)

\* The embedder calls eval on a text: an input that does not parse
\* evaluates nothing.
EvalInput(input, env) ==
    LET forms == parse(input)
        ms == eval(input, env, InitialMs)
        kept == Retained(ms.sc, Len(scopes), ms.res)
    IN /\ Alive
       /\ env \in Scopes
       /\ Len(kept) <= MaxScopes
       /\ TotalMethods(kept) <= MaxMethods
       /\ scopes' = kept
       /\ result' = ms.res
       /\ log' = ms.log
       /\ last' = [op |-> "eval", exprs |-> IF forms.ok THEN forms.exprs ELSE <<>>,
                   env |-> env, input |-> input]

\* EnvRef::def: the embedder binds a name to a value it built.
Def(env, key, value) ==
    /\ Alive
    /\ env \in Scopes
    /\ scopes' = Env_def(scopes, env, key, value)
    /\ result' = OkR(Nil)
    /\ log' = <<>>
    /\ last' = [op |-> "def", exprs |-> <<>>, env |-> env]

\* Env::extend(env_ref).into_ref(): the embedder opens a scope inside `env`.
Extend(env) ==
    /\ Alive
    /\ env \in Scopes
    /\ Len(scopes) < MaxScopes
    /\ scopes' = Env_extend(scopes, env)
    /\ result' = OkR(Nil)
    /\ log' = <<>>
    /\ last' = [op |-> "extend", exprs |-> <<>>, env |-> env]

\* The embedder drops its reference to its innermost scope; the scope is
\* freed when nothing else refers to it.
Drop(env) ==
    /\ Alive
    /\ env = Len(scopes)
    /\ env > 1
    /\ Len(Retained(scopes, env - 1, OkR(Nil))) = env - 1
    /\ scopes' = SubSeq(scopes, 1, env - 1)
    /\ result' = OkR(Nil)
    /\ log' = <<>>
    /\ last' = [op |-> "drop", exprs |-> <<>>, env |-> env]

\* Env::with_core_module().into_ref()
Init ==
    /\ scopes = <<Env_with_core_module>>
    /\ result = OkR(Nil)
    /\ log = <<>>
    /\ last = [op |-> "new", exprs |-> <<>>, env |-> 1]

Call(name, args) == List(<<Symbol(name)>> \o args)

(***************************************************************************)
(* Vocabulary of the properties, defined on the heap alone.                *)
(***************************************************************************)
\* The scopes on the chain of scope s, innermost first.
RECURSIVE Chain(_, _)
Chain(sc, s) == IF s = 0 THEN <<>> ELSE <<s>> \o Chain(sc, sc[s].enclosing)

Binds(sc, s, n) == n \in DOMAIN sc[s].vars

\* The nearest scope on the chain of s that binds n, 0 when none does.
Nearest(sc, s, n) ==
    LET c == Chain(sc, s)
    IN IF \E i \in 1..Len(c) : Binds(sc, c[i], n)
       THEN c[CHOOSE i \in 1..Len(c) :
                /\ Binds(sc, c[i], n)
                /\ \A j \in 1..(i - 1) : ~Binds(sc, c[j], n)]
       ELSE 0

\* What a lookup of n from scope s is expected to see.
Seen(sc, s, n) ==
    IF Nearest(sc, s, n) = 0 THEN ErrR(UnboundVar(n))
    ELSE OkR(sc[Nearest(sc, s, n)].vars[n])

\* Scope j is the same before and after, but for the binding of n.
SameBut(before, after, j, n) ==
    /\ after[j].enclosing = before[j].enclosing
    /\ after[j].methods = before[j].methods
    /\ DOMAIN after[j].vars \ {n} = DOMAIN before[j].vars \ {n}
    /\ \A m \in DOMAIN before[j].vars \ {n} : after[j].vars[m] = before[j].vars[m]

\* The evaluation that has just returned was of the forms `exprs` in scope s.
Evaluated(l, exprs) == l.op = "eval" /\ l.exprs = exprs

(***************************************************************************)
(* SpecEnv: a chain of nested scopes, and var, set! and symbol lookup      *)
(* evaluated in any scope of the chain.                                    *)
(***************************************************************************)
\* The (name, value) pairs of the inputs.
Bindings == {<<"x", Number(1)>>, <<"x", Number(2)>>, <<"y", Number(1)>>}
Names == {b[1] : b \in Bindings}

VarForm(n, v) == Call("var", <<Symbol(n), v>>)
SetForm(n, v) == Call("set!", <<Symbol(n), v>>)

EnvInputs ==
    {<<VarForm(b[1], b[2])>> : b \in Bindings}
    \cup {<<SetForm(b[1], b[2])>> : b \in Bindings}
    \cup {<<Symbol(n)>> : n \in Names}

NextEnv ==
    \/ Extend(Len(scopes))
    \/ Drop(Len(scopes))
    \/ \E env \in Scopes, exprs \in EnvInputs : Eval(exprs, env)

SpecEnv == Init /\ [][NextEnv]_vars

\* What (set! n v) issued in scope s is expected to do in one step.
SetEffect(n, v, s) ==
    LET k == Nearest(scopes, s, n)
    IN /\ Len(scopes') = Len(scopes)
       /\ \A j \in 1..Len(scopes) :
             /\ SameBut(scopes, scopes', j, n)
             /\ Binds(scopes', j, n) = Binds(scopes, j, n)
             /\ Binds(scopes, j, n) =>
                   scopes'[j].vars[n] = IF j = k THEN v ELSE scopes[j].vars[n]
       /\ result' = IF k = 0 THEN ErrR(SetUninitializedVar(n)) ELSE OkR(Nil)

\* One step of C5: (set! n v) evaluated in scope last'.env.
SetStep(n, v) ==
    Evaluated(last', <<SetForm(n, v)>>) => SetEffect(n, v, last'.env)

\* C5: set! of a name n in scope S rebinds n in the nearest scope on the
\* chain of S that already binds n, and changes no other scope and no other
\* name; it creates no binding; when no scope on the chain binds n it fails
\* with SetUninitializedVar(n) and n stays unbound everywhere.
C5_SetRebindsNearest == [][\A b \in Bindings : SetStep(b[1], b[2])]_vars

\* C5 witness: a set! issued in an inner scope that does not bind x has
\* rebound x in the enclosing scope, and the root's own x is untouched.
C5_Witness ==
    /\ Evaluated(last, <<SetForm("x", Number(2))>>)
    /\ last.env = 3
    /\ result = OkR(Nil)
    /\ ~Binds(scopes, 3, "x")
    /\ Binds(scopes, 2, "x") /\ scopes[2].vars["x"] = Number(2)
    /\ Binds(scopes, 1, "x") /\ scopes[1].vars["x"] = Number(1)

\* One step of C6: (var n v) evaluated in scope last'.env.
VarStep(n, v) ==
    LET s == last'.env
    IN Evaluated(last', <<VarForm(n, v)>>) =>
          /\ result' = OkR(Nil)
          /\ Len(scopes') = Len(scopes)
          /\ Binds(scopes', s, n) /\ scopes'[s].vars[n] = v
          /\ SameBut(scopes, scopes', s, n)
          /\ \A j \in 1..Len(scopes) : j # s => scopes'[j] = scopes[j]
          /\ Seen(scopes', s, n) = OkR(v)
          /\ scopes[s].enclosing # 0 =>
                Seen(scopes', scopes[s].enclosing, n) = Seen(scopes, scopes[s].enclosing, n)

\* One step of C6: the innermost scope goes away.
DropStep ==
    last'.op = "drop" =>
       /\ Len(scopes') = Len(scopes) - 1
       /\ \A j \in 1..Len(scopes') :
             /\ scopes'[j] = scopes[j]
             /\ \A n \in Names : Seen(scopes', j, n) = Seen(scopes, j, n)

\* C6: var of a name n writes the binding of n in the current scope only;
\* the bindings of n in the enclosing scopes are unchanged and are what is
\* seen again once the inner scope is gone, while a lookup from the inner
\* scope sees the new value.
C6_VarWritesCurrentScope ==
    [][DropStep /\ \A b \in Bindings : VarStep(b[1], b[2])]_vars

\* C6 witness: x was defined in the innermost scope over a different x of
\* the root, which still holds its own value.
C6_Witness ==
    /\ Evaluated(last, <<VarForm("x", Number(2))>>)
    /\ last.env = 3
    /\ scopes[3].vars["x"] = Number(2)
    /\ ~Binds(scopes, 2, "x")
    /\ Binds(scopes, 1, "x") /\ scopes[1].vars["x"] = Number(1)

\* One step of C7: the symbol n evaluated in scope last'.env.
GetStep(n) ==
    Evaluated(last', <<Symbol(n)>>) =>
       /\ result' = Seen(scopes, last'.env, n)
       /\ (~result'.ok) = (\A j \in 1..Len(Chain(scopes, last'.env)) :
                              ~Binds(scopes, Chain(scopes, last'.env)[j], n))
       /\ scopes' = scopes

\* C7: evaluating Symbol(name) in scope S returns the value bound to name in
\* the nearest scope on the chain of S, fails with UnboundVar(name) exactly
\* when no scope on the chain binds name, and changes no binding.
C7_SymbolNearestBinding == [][\A n \in Names : GetStep(n)]_vars

\* C7 witness: x is looked up from the innermost scope, which does not bind
\* it, and the value of the middle scope hides the different one of the root.
C7_Witness ==
    /\ Evaluated(last, <<Symbol("x")>>)
    /\ last.env = 3
    /\ ~Binds(scopes, 3, "x")
    /\ Binds(scopes, 2, "x") /\ scopes[2].vars["x"] = Number(2)
    /\ Binds(scopes, 1, "x") /\ scopes[1].vars["x"] = Number(1)
    /\ result = OkR(Number(2))

(***************************************************************************)
(* SpecForms: programs evaluated in the root scope: `if` forms, programs   *)
(* of several forms, and calls with a wrong number of arguments.           *)
(***************************************************************************)
IfThen == SetForm("x", Number(2))
IfElse == SetForm("y", Number(2))
Conds == {Boolean(TRUE), Boolean(FALSE), Nil, Number(0), Symbol("x")}
IfArgs == {<<c, IfThen>> : c \in Conds} \cup {<<c, IfThen, IfElse>> : c \in Conds}

Programs ==
    {<<>>,
     <<VarForm("x", Number(1)), Symbol("x")>>,
     <<VarForm("x", Number(1)), VarForm("x", Call("+", <<Symbol("x"), Number(1)>>)),
       Symbol("x")>>,
     <<SetForm("x", Number(2)), VarForm("y", Number(2))>>,
     <<Symbol("y"), Symbol("x")>>}

\* (defn f [a] a), (defm number? [m: a] a), (defm true [m: a] a)
DefnF == Call("defn", <<Symbol("f"), Vector(<<Symbol("a")>>), Symbol("a")>>)
DefmNumber ==
    Call("defm", <<Symbol("number?"), Vector(<<Symbol("m"), Symbol("a")>>), Symbol("a")>>)
DefmTrue ==
    Call("defm", <<Boolean(TRUE), Vector(<<Symbol("m"), Symbol("a")>>), Symbol("a")>>)

TwoVars == <<VarForm("x", Number(1)), VarForm("y", Number(1))>>

\* Calls whose argument count the callee refuses, and two that it accepts.
Calls ==
    {Call("number?", TwoVars),
     Call("set!", <<Symbol("x")>>),
     Call("var", <<Symbol("x"), Number(1), Number(2)>>),
     Call("if", <<VarForm("x", Number(1))>>),
     Call("f", <<>>),
     Call("f", TwoVars),
     Call("f", <<VarForm("y", Number(2))>>),
     VarForm("x", Call("set!", <<Symbol("y")>>)),
     MethodList(<<Number(1), Symbol("m")>>),
     MethodList(<<VarForm("y", Number(1)), Symbol("m")>>),
     MethodList(<<Number(1), Symbol("m"), VarForm("x", Number(1))>>)}

FormInputs ==
    {<<VarForm("x", Number(1))>>, <<VarForm("y", Number(1))>>,
     <<VarForm("x", Boolean(FALSE))>>, <<DefnF>>, <<DefmNumber>>, <<DefmTrue>>}
    \cup {<<Call("if", a)>> : a \in IfArgs}
    \cup Programs
    \cup {<<c>> : c \in Calls}

NextForms == \E exprs \in FormInputs : Eval(exprs, 1)

SpecForms == Init /\ [][NextForms]_vars

\* C2: the argument count of every call of a NativeFn, Fn or Method is
\* checked before any argument of the call is evaluated: a call with a wrong
\* count fails at once with InvalidArity(name, arity), nothing is evaluated
\* between the entry of the call and the failure, the heap is the one the
\* call found, and the failure is the result of the whole evaluation.
C2_ArityBeforeArguments ==
    \A i \in 1..Len(log) :
       /\ (log[i].ev = "call" /\ ~Arity_check(log[i].f.arity, log[i].args)) =>
             /\ i < Len(log)
             /\ log[i + 1].ev = "arity"
       /\ log[i].ev = "arity" =>
             /\ i > 1
             /\ log[i - 1].ev = "call"
             /\ log[i - 1].f = log[i].f
             /\ log[i - 1].heap = log[i].heap
             /\ i = Len(log)
             /\ result = ErrR(InvalidArity(log[i].f.id, log[i].f.arity))
             /\ scopes = SubSeq(log[i].heap, 1, Len(scopes))

\* C2 witness: f, of one parameter, was called with two arguments that would
\* each define a name; the call failed and neither name exists.
C2_Witness ==
    /\ Evaluated(last, <<Call("f", TwoVars)>>)
    /\ Binds(scopes, 1, "f")
    /\ result = ErrR(InvalidArity(scopes[1].vars["f"].id, Count(1)))
    /\ ~Binds(scopes, 1, "x")
    /\ ~Binds(scopes, 1, "y")

\* The forms that eval_expr was called on at nesting depth d, in order.
EvaluatedAt(l, d) ==
    LET evs == SelectSeq(l, LAMBDA e : e.ev = "eval" /\ e.depth = d)
    IN [i \in 1..Len(evs) |-> evs[i].expr]

\* The value of a condition that is a literal or a symbol.
ValueOf(c, sc, s) == IF c.tag = "Symbol" THEN Seen(sc, s, c.name) ELSE OkR(c)

\* One step of C3: (if c t e) or (if c t) evaluated in scope last'.env.
IfStep(args) ==
    LET c == ValueOf(args[1], scopes, last'.env)
        arms == EvaluatedAt(log', 1)
    IN Evaluated(last', <<Call("if", args)>>) =>
          IF ~c.ok
          THEN arms = <<args[1]>> /\ result' = c /\ scopes' = scopes
          ELSE IF is_truthy(c.val)
          THEN arms = <<args[1], IfThen>> /\ SetEffect("x", Number(2), last'.env)
          ELSE IF Len(args) = 3
          THEN arms = <<args[1], IfElse>> /\ SetEffect("y", Number(2), last'.env)
          ELSE arms = <<args[1]>> /\ result' = OkR(Nil) /\ scopes' = scopes

\* C3: evaluating (if c t e) evaluates c once and then exactly one arm, t
\* when c is truthy and e otherwise (Nil, with nothing evaluated, when e is
\* absent); the other arm is not evaluated and its set! changes nothing.
C3_IfEvaluatesOneArm == [][\A a \in IfArgs : IfStep(a)]_vars

\* C3 witness: the condition was falsy, the else arm has set y, and x, the
\* target of the then arm, keeps its value.
C3_Witness ==
    /\ Evaluated(last, <<Call("if", <<Nil, IfThen, IfElse>>)>>)
    /\ result = OkR(Nil)
    /\ Binds(scopes, 1, "x") /\ scopes[1].vars["x"] = Number(1)
    /\ Binds(scopes, 1, "y") /\ scopes[1].vars["y"] = Number(2)
    /\ EvaluatedAt(log, 1) = <<Nil, IfElse>>

\* The forms of program P from the i-th on, each evaluated on its own in
\* scope s of the heap left by the one before it.
RECURSIVE OneByOne(_, _, _, _, _)
OneByOne(P, i, s, sc, res) ==
    IF i > Len(P) THEN [sc |-> sc, res |-> res]
    ELSE LET r == eval_exprs(<<P[i]>>, s, [InitialMs EXCEPT !.sc = sc])
             kept == Retained(r.sc, Len(sc), r.res)
         IN IF r.res.ok THEN OneByOne(P, i + 1, s, kept, r.res)
            ELSE [sc |-> kept, res |-> r.res]

\* One step of C9: the program P evaluated in scope last'.env.
ProgramStep(P) ==
    LET tops == SelectSeq(log', LAMBDA e : e.ev = "eval" /\ e.depth = 0)
        after == OneByOne(P, 1, last'.env, scopes, OkR(Nil))
    IN Evaluated(last', P) =>
          /\ Len(tops) <= Len(P)
          /\ \A i \in 1..Len(tops) : tops[i].expr = P[i] /\ tops[i].env = last'.env
          /\ result'.ok => Len(tops) = Len(P)
          /\ result' = after.res
          /\ scopes' = after.sc
          /\ Len(P) = 0 => result' = OkR(Nil)

\* C9: eval evaluates the top-level forms one after another in source order
\* in the same environment, each form seeing the bindings made or changed
\* by the forms before it; the result is the value of the last form, or Nil
\* when there are no forms.
C9_FormsInOrder == [][\A P \in Programs : ProgramStep(P)]_vars

\* C9 witness: the second form read the x the first form made, and the
\* third returned the x the second form made.
C9_Witness ==
    /\ Evaluated(last, <<VarForm("x", Number(1)),
                         VarForm("x", Call("+", <<Symbol("x"), Number(1)>>)),
                         Symbol("x")>>)
    /\ result = OkR(Number(2))
    /\ scopes[1].vars["x"] = Number(2)

(***************************************************************************)
(* SpecCall: functions defined and called in the root scope: a function    *)
(* that reads a free name, a caller that shadows that name, and a variadic *)
(* function.                                                               *)
(***************************************************************************)
\* (defn f [] x), (defn h [x] (f)), (defn g [a & r] r)
DefnReadsX == Call("defn", <<Symbol("f"), Vector(<<>>), Symbol("x")>>)
DefnShadowsX == Call("defn", <<Symbol("h"), Vector(<<Symbol("x")>>), Call("f", <<>>)>>)
DefnVariadic ==
    Call("defn", <<Symbol("g"), Vector(<<Symbol("a"), Ampersand, Symbol("r")>>), Symbol("r")>>)

Shadows == {Number(1), Number(2)}

VariadicArgs ==
    {<<Number(1)>>, <<Symbol("x")>>, <<Number(1), Symbol("x")>>,
     <<Number(1), Number(2), Symbol("x")>>}

CallInputs ==
    {<<VarForm("x", v)>> : v \in Shadows}
    \cup {<<DefnReadsX>>, <<DefnShadowsX>>, <<DefnVariadic>>, <<Call("f", <<>>)>>}
    \cup {<<Call("h", <<v>>)>> : v \in Shadows}
    \cup {<<Call("g", a)>> : a \in VariadicArgs}
    \cup {<<DefnReadsX, DefnShadowsX, Call("h", <<v>>)>> : v \in Shadows}

NextCall == \E exprs \in CallInputs : Eval(exprs, 1)

SpecCall == Init /\ [][NextCall]_vars

\* C1: a Fn is activated in a fresh scope whose enclosing scope is the one
\* captured when the Fn was created, not the caller's: f, created in the
\* root scope, reads the free name x; called from the body of h, whose
\* parameter x shadows the root's x, f sees the root's x.
C1_FnSeesDefiningScope ==
    /\ \A i \in 1..Len(log) :
          (log[i].ev = "activate" /\ log[i].f.tag = "Fn") =>
             log[i].enclosing = log[i].f.closure
    /\ \A v \in Shadows :
          (/\ Evaluated(last, <<Call("h", <<v>>)>>)
           /\ result.ok
           /\ Binds(scopes, 1, "x")) =>
             result = Seen(scopes, scopes[1].vars["f"].closure, "x")

\* The values of the argument expressions `args` in scope s, when each has one.
ValuesOf(args, sc, s) == [i \in 1..Len(args) |-> ValueOf(args[i], sc, s).val]

\* C10: called with arguments past its fixed parameters, a Fn with an
\* Ampersand binds the symbol after it to a Vector of the values of the
\* remaining arguments, each evaluated in the caller's environment, in
\* order: g, which returns its rest parameter, returns those values.
C10_RestHoldsValues ==
    \A a \in VariadicArgs :
       (/\ Evaluated(last, <<Call("g", a)>>)
        /\ Binds(scopes, 1, "g")
        /\ \A i \in 1..Len(a) : ValueOf(a[i], scopes, 1).ok) =>
          result = OkR(Vector(Tail(ValuesOf(a, scopes, 1))))

(***************************************************************************)
(* SpecMethod: methods registered for the message m in the scopes of a     *)
(* chain, and the message sent to a receiver from any scope.               *)
(***************************************************************************)
\* (defm selector [m] body), the body naming the selector.
Defm(selector, body) == Call("defm", <<selector, Vector(<<Symbol("m")>>), body>>)

DefmForms ==
    {Defm(Symbol("number?"), Keyword(":number")),
     Defm(Call("fn", <<Vector(<<Symbol("r")>>), Symbol("r")>>), Keyword(":fn")),
     Defm(Boolean(TRUE), Keyword(":true")),
     Defm(Boolean(FALSE), Keyword(":false"))}

Receivers == {Number(1), Nil, Keyword(":k")}

\* <receiver m>
Send(receiver) == MethodList(<<receiver, Symbol("m")>>)

MethodInputs == {<<d>> : d \in DefmForms} \cup {<<Send(r)>> : r \in Receivers}

NextMethod ==
    \/ Len(scopes) < MaxMethodScopes /\ Extend(Len(scopes))
    \/ \E env \in Scopes, exprs \in MethodInputs : Eval(exprs, env)

SpecMethod == Init /\ [][NextMethod]_vars

\* Whether a selector of DefmForms accepts a receiver that is a literal.
Accepts(selector, receiver) ==
    CASE selector.tag = "NativeFn" -> receiver.tag = "Number"
      [] selector.tag = "Fn" -> is_truthy(receiver)
      [] OTHER -> is_truthy(selector)

\* The methods whose Method::call was entered, in order.
MethodsCalled(l) ==
    LET evs == SelectSeq(l, LAMBDA e : e.ev = "call" /\ e.f.tag = "Method")
    IN [i \in 1..Len(evs) |-> evs[i].f]

\* The selectors that dispatch called, in order.
SelectorsCalled(l) ==
    LET evs == SelectSeq(l, LAMBDA e : e.ev = "call" /\ e.f.tag # "Method")
    IN [i \in 1..Len(evs) |-> evs[i].f]

\* One step of C4: <receiver m> sent from scope last'.env, on the candidate
\* list that Env::get_methods returns there.
SendStep(receiver) ==
    LET found == Env_get_methods(scopes, last'.env, "m")
        hits == {i \in 1..Len(found.list) : Accepts(found.list[i].selector, receiver)}
        first == CHOOSE i \in hits : \A j \in hits : i <= j
    IN (Evaluated(last', <<Send(receiver)>>) /\ found.ok) =>
          /\ scopes' = scopes
          /\ IF hits = {}
             THEN result' = ErrR(NotAMethod("m")) /\ MethodsCalled(log') = <<>>
             ELSE /\ MethodsCalled(log') = <<found.list[first]>>
                  /\ result' = OkR(found.list[first].function[1])

\* C4: dispatch picks, among the methods registered under the identifier of
\* the message, the earliest registered one whose selector is truthy on the
\* receiver (a NativeFn or Fn selector is called on the receiver, any other
\* selector is its own match value); a later one is never chosen while an
\* earlier one matches.
C4_FirstMatchingMethod == [][\A r \in Receivers : SendStep(r)]_vars

\* C4 witness: the number 1 was sent m where the catch-all selector `true`
\* was registered before the more specific number?; the first one ran.
C4_Witness ==
    /\ Evaluated(last, <<Send(Number(1))>>)
    /\ last.env = 1
    /\ "m" \in DOMAIN scopes[1].methods
    /\ Len(scopes[1].methods["m"]) = 2
    /\ scopes[1].methods["m"][1].selector = Boolean(TRUE)
    /\ scopes[1].methods["m"][2].selector.tag = "NativeFn"
    /\ result = OkR(Keyword(":true"))

HasMethods(sc, s, id) == id \in DOMAIN sc[s].methods

\* The nearest scope on the chain of s with a method list for id, 0 if none.
NearestMethods(sc, s, id) ==
    LET c == Chain(sc, s)
    IN IF \E i \in 1..Len(c) : HasMethods(sc, c[i], id)
       THEN c[CHOOSE i \in 1..Len(c) :
                /\ HasMethods(sc, c[i], id)
                /\ \A j \in 1..(i - 1) : ~HasMethods(sc, c[j], id)]
       ELSE 0

Elements(s) == {s[i] : i \in 1..Len(s)}

\* One step of C8: <receiver m> sent from scope last'.env.
LookupStep(receiver) ==
    LET k == NearestMethods(scopes, last'.env, "m")
        inner == scopes[k].methods["m"]
    IN Evaluated(last', <<Send(receiver)>>) =>
          IF k = 0
          THEN result' = ErrR(UnboundMethod("m")) /\ MethodsCalled(log') = <<>>
          ELSE /\ Elements(MethodsCalled(log')) \subseteq Elements(inner)
               /\ Elements(SelectorsCalled(log')) \subseteq
                     {inner[i].selector : i \in 1..Len(inner)}
               /\ (\A i \in 1..Len(inner) : ~Accepts(inner[i].selector, receiver)) =>
                     result' = ErrR(NotAMethod("m"))

\* C8: method lookup walks the chain outward and uses only the list of the
\* innermost scope that has any method under the identifier; the methods of
\* the enclosing scopes are never candidates while an inner scope has a
\* list, even when no method of the inner list matches the receiver.
C8_InnermostMethodList == [][\A r \in Receivers : LookupStep(r)]_vars

\* C8 witness: sent from scope 2, whose only method refuses every receiver,
\* the message is not answered although the root has a method that accepts.
C8_Witness ==
    /\ Evaluated(last, <<Send(Number(1))>>)
    /\ last.env = 2
    /\ HasMethods(scopes, 2, "m")
    /\ scopes[2].methods["m"][1].selector = Boolean(FALSE)
    /\ Len(scopes[2].methods["m"]) = 1
    /\ HasMethods(scopes, 1, "m")
    /\ scopes[1].methods["m"][1].selector = Boolean(TRUE)
    /\ result = ErrR(NotAMethod("m"))

(***************************************************************************)
(* SpecErrors: forms evaluated in the root scope that the evaluator or a   *)
(* special form may refuse: var with one argument or a name that is not a  *)
(* symbol, lists with a head that cannot be called, and messages that no   *)
(* method answers.                                                         *)
(***************************************************************************)
\* (var x), (var y), (var 1), (var 1 2), (var :k 2), next to well-formed ones.
VarInputs ==
    {<<Call("var", <<Symbol(n)>>)>> : n \in Names}
    \cup {<<Call("var", <<Number(1)>>)>>,
          <<Call("var", <<Number(1), Number(2)>>)>>,
          <<Call("var", <<Keyword(":k"), VarForm("y", Number(2))>>)>>,
          <<VarForm("x", Number(1))>>,
          <<VarForm("y", Number(1))>>,
          <<Symbol("x")>>}

\* Lists whose head may not be callable, each with a tail that would bind y
\* if it were evaluated: (), (1 (var y 2)), (:k (var y 2)), ((f) (var y 2)),
\* (z (var y 2)), (x (var y 2)), (f (var y 2)); and what binds x and f.
Tails == <<VarForm("y", Number(2))>>
Heads == {Number(1), Keyword(":k"), Call("f", <<>>), Symbol("z"), Symbol("x"), Symbol("f")}
Lists == {List(<<>>)} \cup {List(<<h>> \o Tails) : h \in Heads}
DefnCalled == Call("defn", <<Symbol("f"), Vector(<<Symbol("a")>>), Keyword(":called")>>)
ListInputs ==
    {<<l>> : l \in Lists}
    \cup {<<VarForm("x", Vector(<<Number(1)>>))>>, <<DefnCalled>>}

\* (defm number? [m] :one) and (defm number? [m a n b] [a b]); the messages
\* <>, <1>, <1 m>, <nil m>, <1 k>, <1 1 2>, <1 m 2 n 3>, <nil m 2 n 3>,
\* <1 m 2 n>, <1 :k 2 m 3>.
DefmOne == Call("defm", <<Symbol("number?"), Vector(<<Symbol("m")>>), Keyword(":one")>>)
DefmPair ==
    Call("defm", <<Symbol("number?"),
                   Vector(<<Symbol("m"), Symbol("a"), Symbol("n"), Symbol("b")>>),
                   Vector(<<Symbol("a"), Symbol("b")>>)>>)
Sends ==
    {MethodList(<<>>),
     MethodList(<<Number(1)>>),
     MethodList(<<Number(1), Symbol("m")>>),
     MethodList(<<Nil, Symbol("m")>>),
     MethodList(<<Number(1), Symbol("k")>>),
     MethodList(<<Number(1), Number(1), Number(2)>>),
     MethodList(<<Number(1), Symbol("m"), Number(2), Symbol("n"), Number(3)>>),
     MethodList(<<Nil, Symbol("m"), Number(2), Symbol("n"), Number(3)>>),
     MethodList(<<Number(1), Symbol("m"), Number(2), Symbol("n")>>),
     MethodList(<<Number(1), Keyword(":k"), Number(2), Symbol("m"), Number(3)>>)}
SendInputs == {<<s>> : s \in Sends}

ErrorInputs == VarInputs \cup ListInputs \cup SendInputs

NextErrors ==
    \/ ~HasMethods(scopes, 1, "m") /\ Eval(<<DefmOne>>, 1)
    \/ ~HasMethods(scopes, 1, "m n") /\ Eval(<<DefmPair>>, 1)
    \/ \E exprs \in ErrorInputs : Eval(exprs, 1)

SpecErrors == Init /\ [][NextErrors]_vars

\* C11: var accepts one or two arguments: with a single Symbol argument it
\* binds that name to Nil in the current environment and returns normally;
\* with a first argument that is not a Symbol it fails with UnexpectedForm.
C11_VarOneArgumentBindsNil ==
    /\ \A n \in Names :
          Evaluated(last, <<Call("var", <<Symbol(n)>>)>>) =>
             /\ result = OkR(Nil)
             /\ Binds(scopes, last.env, n)
             /\ scopes[last.env].vars[n] = Nil
    /\ (\/ Evaluated(last, <<Call("var", <<Number(1)>>)>>)
        \/ Evaluated(last, <<Call("var", <<Number(1), Number(2)>>)>>)) =>
          result = ErrR(UnexpectedForm("Only symbols can be defined", Number(1)))

\* The elements of s at positions from, from + 2, from + 4, ...
RECURSIVE Alternate(_, _)
Alternate(s, from) ==
    IF from > Len(s) THEN <<>> ELSE <<s[from]>> \o Alternate(s, from + 2)

\* The identifier a message names: the parts r0, r2, ... as they print.
NamedBy(rest) ==
    LET parts == Alternate(rest, 1)
    IN JoinSpace([i \in 1..Len(parts) |-> Display(parts[i])])

\* A Method::call of the method `id` on the arguments `args` is in the log.
Invoked(l, id, args) ==
    \E i \in 1..Len(l) :
        /\ l[i].ev = "call"
        /\ l[i].f.tag = "Method"
        /\ l[i].f.id = id
        /\ l[i].args = args

\* One step of C13: the message msg sent from scope last'.env.
MessageStep(msg) ==
    Evaluated(last', <<msg>>) =>
       IF msg.items = <<>>
       THEN /\ ~result'.ok
            /\ result'.err.tag = "InvalidEmptyList"
            /\ MethodsCalled(log') = <<>>
       ELSE LET rest == Tail(msg.items)
                id == NamedBy(rest)
                k == NearestMethods(scopes, last'.env, id)
                list == scopes[k].methods[id]
            IN IF k = 0
               THEN result' = ErrR(UnboundMethod(id)) /\ MethodsCalled(log') = <<>>
               ELSE IF \A i \in 1..Len(list) : ~Accepts(list[i].selector, Head(msg.items))
               THEN result' = ErrR(NotAMethod(id)) /\ MethodsCalled(log') = <<>>
               ELSE Invoked(log', id, Alternate(rest, 2))

\* C13: in a message <receiver r0 r1 r2 r3 ...> the method identifier is
\* the display forms of r0, r2, ... joined by single spaces and the
\* arguments are r1, r3, ...; the message fails with UnboundMethod(id) when
\* no scope on the chain has a method under that identifier, with
\* NotAMethod(id) when methods are registered under it and none accepts the
\* receiver, and the empty message <> fails with InvalidEmptyList.
C13_MessageIdentifierAndErrors == [][\A msg \in Sends : MessageStep(msg)]_vars

\* C13 witness: with both methods registered, <1 m 2 n 3> ran the method
\* "m n" on the arguments 2 and 3.
C13_Witness ==
    /\ Evaluated(last, <<MethodList(<<Number(1), Symbol("m"), Number(2),
                                      Symbol("n"), Number(3)>>)>>)
    /\ HasMethods(scopes, 1, "m")
    /\ HasMethods(scopes, 1, "m n")
    /\ Invoked(log, "m n", <<Number(2), Number(3)>>)
    /\ result = OkR(Vector(<<Number(2), Number(3)>>))

\* Only the list itself was evaluated: nothing of its tail, and no scope
\* was written.
OnlyHeadSeen(l) ==
    /\ scopes' = scopes
    /\ log' = <<EvalEv(l, last'.env, 0)>>

\* One step of C14: the list l evaluated in scope last'.env.
ListStep(l) ==
    Evaluated(last', <<l>>) =>
       IF l.items = <<>>
       THEN /\ ~result'.ok
            /\ result'.err.tag = "InvalidEmptyList"
            /\ OnlyHeadSeen(l)
       ELSE LET head == Head(l.items)
                seen == Seen(scopes, last'.env, head.name)
            IN IF head.tag # "Symbol"
               THEN /\ ~result'.ok
                    /\ result'.err.tag = "UnexpectedForm"
                    /\ OnlyHeadSeen(l)
               ELSE IF ~seen.ok
               THEN result' = ErrR(UnboundVar(head.name)) /\ OnlyHeadSeen(l)
               ELSE IF seen.val.tag \notin {"NativeFn", "Fn"}
               THEN /\ ~result'.ok
                    /\ result'.err.tag = "NotAFunction"
                    /\ OnlyHeadSeen(l)
               ELSE /\ Len(log') >= 2
                    /\ log'[2].ev = "call"
                    /\ log'[2].f = seen.val
                    /\ log'[2].args = Tail(l.items)

\* C14: a list () fails with InvalidEmptyList; a list whose head is not a
\* Symbol fails with UnexpectedForm; a head Symbol that is unbound fails
\* with UnboundVar; a head bound to a value that is neither a NativeFn nor a
\* Fn fails with NotAFunction; in each of these cases no element of the
\* tail is evaluated.  Otherwise the callable is called with the tail as
\* written, unevaluated.
C14_ListHeadErrors == [][\A l \in Lists : ListStep(l)]_vars

\* C14 witness: with x bound to the vector [1], (x (var y 2)) failed with
\* NotAFunction and y is still unbound.
C14_Witness ==
    /\ Evaluated(last, <<List(<<Symbol("x")>> \o Tails)>>)
    /\ Binds(scopes, 1, "x")
    /\ scopes[1].vars["x"] = Vector(<<Number(1)>>)
    /\ ~Binds(scopes, 1, "y")
    /\ result = ErrR(NotAFunction("[1]"))

(***************************************************************************)
(* SpecInvoke: a method of two parameters and one of none, registered in   *)
(* the root scope, and messages sent from the root scope or from a scope   *)
(* inside it, with receiver and arguments that are literals or names.      *)
(***************************************************************************)
\* (defm true [m: a n: b] a [this a b]) and (defm true [m] this)
InvokeBody == <<Symbol("a"), Vector(<<Symbol("this"), Symbol("a"), Symbol("b")>>)>>
DefmTwo ==
    Call("defm", <<Boolean(TRUE),
                   Vector(<<Symbol("m"), Symbol("a"), Symbol("n"), Symbol("b")>>)>>
                 \o InvokeBody)
DefmNone == Call("defm", <<Boolean(TRUE), Vector(<<Symbol("m")>>), Symbol("this")>>)

\* <receiver m: a n: b>
Send2(receiver, a, b) == MethodList(<<receiver, Symbol("m"), a, Symbol("n"), b>>)

\* (receiver, a, b) of the messages.
Messages ==
    {<<Symbol("x"), Symbol("y"), Number(1)>>,
     <<Number(1), Symbol("x"), Symbol("y")>>,
     <<Symbol("y"), Number(2), Symbol("x")>>}

InvokeInputs ==
    {<<VarForm("x", Number(1))>>, <<VarForm("x", Number(2))>>, <<Send(Symbol("x"))>>}
    \cup {<<Send2(m[1], m[2], m[3])>> : m \in Messages}

\* Each method is registered once, and y is a name of the root scope only.
NextInvoke ==
    \/ Len(scopes) < MaxMethodScopes /\ Extend(Len(scopes))
    \/ ~HasMethods(scopes, 1, "m n") /\ Eval(<<DefmTwo>>, 1)
    \/ ~HasMethods(scopes, 1, "m") /\ Eval(<<DefmNone>>, 1)
    \/ Eval(<<VarForm("y", Number(1))>>, 1)
    \/ \E env \in Scopes, exprs \in InvokeInputs : Eval(exprs, env)

SpecInvoke == Init /\ [][NextInvoke]_vars

\* The events of l after the entry of the first Method::call.
AfterMethodCall(l) ==
    LET at == CHOOSE i \in 1..Len(l) :
                 /\ l[i].ev = "call" /\ l[i].f.tag = "Method"
                 /\ \A j \in 1..(i - 1) : ~(l[j].ev = "call" /\ l[j].f.tag = "Method")
    IN SubSeq(l, at + 1, Len(l))

\* The forms evaluated in scope s at nesting depth d, in order.
EvaluatedIn(l, s, d) ==
    LET evs == SelectSeq(l, LAMBDA e : e.ev = "eval" /\ e.depth = d /\ e.env = s)
    IN [i \in 1..Len(evs) |-> evs[i].expr]

\* One step of C12: <receiver m: a n: b> sent from scope last'.env while a
\* method answers it.
InvokeStep(receiver, a, b) ==
    LET s == last'.env
        fresh == Len(scopes) + 1
        this == ValueOf(receiver, scopes, s)
        va == ValueOf(a, scopes, s)
        vb == ValueOf(b, scopes, s)
        after == AfterMethodCall(log')
        bound == SelectSeq(after, LAMBDA e : e.ev = "bound")
    IN (Evaluated(last', <<Send2(receiver, a, b)>>) /\ HasMethods(scopes, 1, "m n")) =>
          /\ scopes' = scopes
          /\ after[1].ev = "activate" /\ after[1].scope = fresh
          /\ IF ~this.ok
             THEN result' = this /\ EvaluatedIn(after, s, 1) = <<receiver>>
             ELSE IF ~va.ok
             THEN result' = va /\ EvaluatedIn(after, s, 1) = <<receiver, a>>
             ELSE IF ~vb.ok
             THEN result' = vb /\ EvaluatedIn(after, s, 1) = <<receiver, a, b>>
             ELSE /\ EvaluatedIn(after, s, 1) = <<receiver, a, b>>
                  /\ Len(bound) = 1
                  /\ bound[1].scope = fresh
                  /\ bound[1].bound = ("this" :> this.val) @@ ("a" :> va.val) @@ ("b" :> vb.val)
                  /\ EvaluatedIn(after, fresh, 1) = InvokeBody
                  /\ result' = OkR(Vector(<<this.val, va.val, vb.val>>))

\* C12: invoking a Method evaluates the receiver in the caller's environment
\* and binds it to `this` in a fresh activation scope before any parameter
\* is bound; the arguments are then evaluated in the caller's environment
\* and bound positionally to the parameter symbols; the result is the value
\* of the last body form.
C12_MethodBindsThisThenParameters ==
    [][\A m \in Messages : InvokeStep(m[1], m[2], m[3])]_vars

\* C12 witness: sent from the inner scope, whose x hides the root's, the
\* message <x m: y n: 1> ran the method on the caller's x and y.
C12_Witness ==
    /\ Evaluated(last, <<Send2(Symbol("x"), Symbol("y"), Number(1))>>)
    /\ last.env = 2
    /\ Binds(scopes, 2, "x") /\ scopes[2].vars["x"] = Number(2)
    /\ Binds(scopes, 1, "x") /\ scopes[1].vars["x"] = Number(1)
    /\ Binds(scopes, 1, "y")
    /\ result = OkR(Vector(<<Number(2), Number(1), Number(1)>>))

(***************************************************************************)
(* SpecLoop: for-each over vector and map literals, from the root scope or *)
(* a scope inside it, with bodies that define a name and that assign the   *)
(* outer name a.                                                           *)
(***************************************************************************)
\* What a starts as: (var a 0) or (var a 1) in the root scope.
Starts == {Number(0), Number(1)}

\* {:b 2 :a 1} as parse_map builds it: the entries in key order.
MapBA == Map(HMap_insert(HMap_insert(HMap_new, Keyword(":b"), Number(2)),
                         Keyword(":a"), Number(1)))

\* The collections as written, each with the items a loop over it takes.
Collections ==
    {<<Vector(<<>>), <<>>>>,
     <<Vector(<<Number(1), Number(2)>>), <<Number(1), Number(2)>>>>,
     <<Vector(<<Number(2), Number(1), Number(3)>>), <<Number(2), Number(1), Number(3)>>>>,
     <<MapBA, <<Vector(<<Keyword(":a"), Number(1)>>), Vector(<<Keyword(":b"), Number(2)>>)>>>>}

LoopVars == {"i", "a"}

\* No body; (set! a v); (var z v) (set! a [a z])
Bodies(v) ==
    {<<>>,
     <<SetForm("a", Symbol(v))>>,
     <<VarForm("z", Symbol(v)), SetForm("a", Vector(<<Symbol("a"), Symbol("z")>>))>>}

\* (for-each v collection body...)
ForLoop(v, collection, body) == Call("for-each", <<Symbol(v), collection>> \o body)

NextLoop ==
    \/ Extend(Len(scopes))
    \/ \E v \in Starts : Eval(<<VarForm("a", v)>>, 1)
    \/ \E env \in Scopes, v \in LoopVars, c \in Collections : \E body \in Bodies(v) :
          /\ Binds(scopes, 1, "a")
          /\ scopes[1].vars["a"] \in Starts
          /\ Eval(<<ForLoop(v, c[1], body)>>, env)

SpecLoop == Init /\ [][NextLoop]_vars

\* The events of the loop's scopes, in order.
Iterations(l, kind) == SelectSeq(l, LAMBDA e : e.ev = kind /\ e.f = ForEach)

\* The forms evaluated directly by for-each: the collection, then the body.
LoopEvals(l) == SelectSeq(l, LAMBDA e : e.ev = "eval" /\ e.depth = 1)

\* The evaluations expected of the body, once per scope of `acts` from j on.
RECURSIVE BodyRuns(_, _, _)
BodyRuns(body, acts, j) ==
    IF j > Len(acts) THEN <<>>
    ELSE [m \in 1..Len(body) |-> EvalEv(body[m], acts[j].scope, 1)]
         \o BodyRuns(body, acts, j + 1)

\* What the outer a holds after the body ran on the items from j on.
RECURSIVE Accumulated(_, _, _, _)
Accumulated(a, body, items, j) ==
    IF j > Len(items) THEN a
    ELSE Accumulated(IF Len(body) = 0 THEN a
                     ELSE IF Len(body) = 1 THEN items[j]
                     ELSE Vector(<<a, items[j]>>),
                     body, items, j + 1)

\* One step of C15: (for-each v c body...) evaluated in scope last'.env.
LoopStep(v, c, body) ==
    LET acts == Iterations(log', "activate")
        binds == Iterations(log', "bound")
        items == c[2]
    IN Evaluated(last', <<ForLoop(v, c[1], body)>>) =>
          /\ result' = OkR(Nil)
          /\ Len(acts) = Len(items)
          /\ Len(binds) = Len(items)
          /\ \A j \in 1..Len(items) :
                /\ acts[j].scope > Len(scopes)
                /\ acts[j].enclosing = last'.env
                /\ binds[j].scope = acts[j].scope
                /\ binds[j].bound = (v :> items[j])
                /\ \A h \in 1..(j - 1) : acts[h].scope # acts[j].scope
          /\ LoopEvals(log') = <<EvalEv(c[1], last'.env, 1)>> \o BodyRuns(body, acts, 1)
          /\ Len(scopes') = Len(scopes)
          /\ \A s \in Scopes :
                /\ DOMAIN scopes'[s].vars = DOMAIN scopes[s].vars
                /\ \A n \in DOMAIN scopes[s].vars \ {"a"} :
                      scopes'[s].vars[n] = scopes[s].vars[n]
          /\ scopes'[1].vars["a"] =
                IF v = "a" THEN scopes[1].vars["a"]
                ELSE Accumulated(scopes[1].vars["a"], body, items, 1)

\* C15: for-each over a Vector of k elements evaluates its body k times, in
\* element order, each time in a fresh scope that extends the current one
\* and binds only the loop variable to the element; over a Map the loop
\* variable is the vector [key value], in key order.  Afterwards no scope
\* binds a name it did not bind before (neither the loop variable nor what
\* the body defined), what set! assigned to an outer name persists, and the
\* result is Nil.
C15_ForEachFreshScopePerItem ==
    [][\A v \in LoopVars, c \in Collections : \A body \in Bodies(v) : LoopStep(v, c, body)]_vars

\* C15 witness: from a = 0 in the root, (for-each i [2 1 3] (var z i)
\* (set! a [a z])) run in an inner scope left a = [[[0 2] 1] 3], three loop
\* scopes behind it, and neither i nor z bound anywhere.
C15_Witness ==
    /\ Evaluated(last, <<ForLoop("i", Vector(<<Number(2), Number(1), Number(3)>>),
                                 <<VarForm("z", Symbol("i")),
                                   SetForm("a", Vector(<<Symbol("a"), Symbol("z")>>))>>)>>)
    /\ last.env = 2
    /\ Len(Iterations(log, "activate")) = 3
    /\ scopes[1].vars["a"] =
          Vector(<<Vector(<<Vector(<<Number(0), Number(2)>>), Number(1)>>), Number(3)>>)
    /\ \A s \in Scopes : ~Binds(scopes, s, "i") /\ ~Binds(scopes, s, "z")
    /\ result = OkR(Nil)

(***************************************************************************)
(* SpecRepl: the lines of a REPL session, each given to eval on the one    *)
(* environment of the session: lines that bind or read x and y, and lines  *)
(* that fail, at once or after a form that succeeded.                      *)
(***************************************************************************)
\* (var n v) and n; (z) and (set! n v), which fail while z and n are
\* unbound; (var n v) (z), which fails at its second form.
ReplInputs ==
    {<<VarForm(n, Number(v))>> : n \in Names, v \in {1, 2}}
    \cup {<<Symbol(n)>> : n \in Names}
    \cup {<<Call("z", <<>>)>>}
    \cup {<<SetForm(n, Number(2))>> : n \in Names}
    \cup {<<VarForm(n, Number(v)), Call("z", <<>>)>> : n \in Names, v \in {1, 2}}

\* main.rs repl: one line read and evaluated; Ok and Err are both printed
\* and the loop goes on.
NextRepl == \E line \in ReplInputs : Eval(line, 1)

SpecRepl == Init /\ [][NextRepl]_vars

\* What eval of `line` returns on the environment `sc`.
Answer(line, sc) ==
    eval_exprs(line, 1, [sc |-> sc, log |-> <<>>, depth |-> 0, res |-> OkR(Nil)]).res

\* C16: an error from one input does not affect subsequent inputs: when
\* eval of a line returns an error, every line evaluated next returns what
\* it would have returned had the failing line never been submitted.
C16_ErrorLeavesNoTrace ==
    [][(last'.op = "eval" /\ ~result'.ok) =>
          \A line \in ReplInputs : Answer(line, scopes') = Answer(line, scopes)]_vars

(***************************************************************************)
(* SpecText: source texts given to eval in a fresh core environment:       *)
(* literals, the texts that literals print as, and map literals.           *)
(***************************************************************************)
\* The largest number written in a source text.
MaxNumber == 45

\* The decimal digits of n.
RECURSIVE NumberChars(_)
NumberChars(n) ==
    IF n < 10 THEN <<DigitChars[n + 1]>>
    ELSE NumberChars(n \div 10) \o <<DigitChars[(n % 10) + 1]>>

Quoted(chars) == <<"\"">> \o chars \o <<"\"">>

\* abc, a b, :k, nil, true, false and the empty text.
Words ==
    {<<"a", "b", "c">>, <<"a", " ", "b">>, <<":", "k">>, <<"n", "i", "l">>,
     <<"t", "r", "u", "e">>, <<"f", "a", "l", "s", "e">>, <<>>}

\* The texts 0, 1, ..., "0", "1", ..., the words and the words in quotes.
LiteralInputs ==
    {NumberChars(n) : n \in 0..MaxNumber}
    \cup {Quoted(NumberChars(n)) : n \in 0..MaxNumber}
    \cup Words
    \cup {Quoted(w) : w \in Words}

\* {}, {:a}, {:a 1}, {:a 1 :b}, {:b 2 :a 1}, {:a 1 :a 2}, {:a 1 :b 2 :a 3},
\* {1 {2}}, (z) {:a}, and {:a 1 :b} opened on the second line and closed on
\* the third; each with what eval is expected to return.
MapError(line) ==
    ErrR(ParseError("A map must have an even number of elements! Map opened at line "
                    \o ToString(line) \o "."))
MapCases ==
    {<<<<"{", "}">>, OkR(Map(<<>>))>>,
     <<<<"{", ":", "a", "}">>, MapError(1)>>,
     <<<<"{", ":", "a", " ", "1", "}">>, OkR(Map(<<<<Keyword(":a"), Number(1)>>>>))>>,
     <<<<"{", ":", "a", " ", "1", " ", ":", "b", "}">>, MapError(1)>>,
     <<<<"{", ":", "b", " ", "2", " ", ":", "a", " ", "1", "}">>,
       OkR(Map(<<<<Keyword(":a"), Number(1)>>, <<Keyword(":b"), Number(2)>>>>))>>,
     <<<<"{", ":", "a", " ", "1", " ", ":", "a", " ", "2", "}">>,
       OkR(Map(<<<<Keyword(":a"), Number(2)>>>>))>>,
     <<<<"{", ":", "a", " ", "1", " ", ":", "b", " ", "2", " ", ":", "a", " ", "3", "}">>,
       OkR(Map(<<<<Keyword(":a"), Number(3)>>, <<Keyword(":b"), Number(2)>>>>))>>,
     <<<<"{", "1", " ", "{", "2", "}", "}">>, MapError(1)>>,
     <<<<"(", "z", ")", " ", "{", ":", "a", "}">>, MapError(1)>>,
     <<<<"\n", "{", ":", "a", " ", "1", " ", ":", "b", "\n", "}">>, MapError(2)>>}

TextInputs == LiteralInputs \cup {c[1] : c \in MapCases}

NextText == \E input \in TextInputs : EvalInput(input, 1)

SpecText == Init /\ [][NextText]_vars

\* The values of the primitive literals among the texts.
Literals ==
    {parse(input).exprs[1] :
        input \in {i \in LiteralInputs :
                      /\ parse(i).ok
                      /\ Len(parse(i).exprs) = 1
                      /\ parse(i).exprs[1].tag
                            \in {"Number", "String", "Keyword", "Nil", "Boolean"}}}

\* C17: for every primitive literal value v (a number, string, keyword,
\* nil or boolean), evaluating the text that v prints as, in a fresh core
\* environment, returns a value equal to v.
C17_PrintedLiteralEvaluatesToItself ==
    \A v \in Literals :
       (last.op = "eval" /\ Spell(last.input) = Display(v)) =>
          (result.ok /\ Expr_eq(result.val, v))

\* C18: a map literal with an odd number of children is a ParseError that
\* names the line of its opening brace, and then no form of the input is
\* evaluated; with an even number it is a Map in which a key written twice
\* keeps its last value.
C18_MapLiteralPairs ==
    \A c \in MapCases :
       (last.op = "eval" /\ last.input = c[1]) =>
          /\ result = c[2]
          /\ ~result.ok => (log = <<>> /\ scopes = <<Env_with_core_module>>)

\* C18 witness: the map opened on the second line with three children is
\* refused with that line, and nothing was evaluated.
C18_Witness ==
    /\ last.op = "eval"
    /\ last.input = <<"\n", "{", ":", "a", " ", "1", " ", ":", "b", "\n", "}">>
    /\ result = MapError(2)
    /\ log = <<>>

(***************************************************************************)
(* SpecEquality: the embedder binds x and y to values with and without     *)
(* metadata, at the top and nested, and the session compares them with     *)
(* (= x y) and (!= x y) and uses both as keys of the map {x 1 y 2}.        *)
(***************************************************************************)
\* A metadata map with one entry, {:k 1}.
SomeMeta == <<<<Keyword(":k"), Number(1)>>>>

\* a and b, [1] and [a], {a 1}: plain, with metadata on the value, and with
\* metadata on the symbol inside.
ComparedValues ==
    {Symbol("a"), SymbolMeta("a", SomeMeta), Symbol("b"),
     Vector(<<Number(1)>>), VectorMeta(<<Number(1)>>, SomeMeta),
     Vector(<<Symbol("a")>>), Vector(<<SymbolMeta("a", SomeMeta)>>),
     Map(<<<<Symbol("a"), Number(1)>>>>), MapMeta(<<<<Symbol("a"), Number(1)>>>>, SomeMeta),
     Map(<<<<SymbolMeta("a", SomeMeta), Number(1)>>>>),
     Number(1)}

\* (= x y), (!= x y) and {x 1 y 2}
EqualsXY == <<"(", "=", " ", "x", " ", "y", ")">>
DiffersXY == <<"(", "!", "=", " ", "x", " ", "y", ")">>
MapXY == <<"{", "x", " ", "1", " ", "y", " ", "2", "}">>

NextEquality ==
    \/ \E n \in Names, v \in ComparedValues : Def(1, n, v)
    \/ \E input \in {EqualsXY, DiffersXY, MapXY} :
          /\ \A n \in Names : Binds(scopes, 1, n)
          /\ EvalInput(input, 1)

SpecEquality == Init /\ [][NextEquality]_vars

\* The value v without any metadata, at every depth.
RECURSIVE Strip(_)
Strip(v) ==
    CASE v.tag = "Symbol" -> Symbol(v.name)
      [] v.tag = "Vector" -> Vector([i \in 1..Len(v.items) |-> Strip(v.items[i])])
      [] v.tag = "Map" ->
            Map([i \in 1..Len(v.entries) |->
                    <<Strip(v.entries[i][1]), Strip(v.entries[i][2])>>])
      [] OTHER -> v

\* The session has just evaluated `input` with x and y bound.
Compared(input) ==
    /\ last.op = "eval"
    /\ "input" \in DOMAIN last
    /\ last.input = input

\* C19: equality ignores metadata: (= x y) is true, and (!= x y) false,
\* exactly when x and y are the same value once the metadata of every
\* Symbol, Vector and Map in them, at any depth, is left out.
C19_EqualityIgnoresMetadata ==
    /\ Compared(EqualsXY) =>
          result = OkR(Boolean(Strip(scopes[1].vars["x"]) = Strip(scopes[1].vars["y"])))
    /\ Compared(DiffersXY) =>
          result = OkR(Boolean(Strip(scopes[1].vars["x"]) # Strip(scopes[1].vars["y"])))

\* C19 witness: [a], with metadata on the symbol inside, was found equal to
\* the plain [a].
C19_Witness ==
    /\ Compared(EqualsXY)
    /\ scopes[1].vars["x"] = Vector(<<SymbolMeta("a", SomeMeta)>>)
    /\ scopes[1].vars["y"] = Vector(<<Symbol("a")>>)
    /\ result = OkR(Boolean(TRUE))

\* C20: the total order on values is consistent with equality and ignores
\* metadata: x = y exactly when the ordering reports them Equal, so that x
\* and y are one key of the map {x 1 y 2} exactly when (= x y) is true.
C20_OrderConsistentWithEquality ==
    /\ (\A n \in Names : Binds(scopes, 1, n)) =>
          (Expr_cmp(scopes[1].vars["x"], scopes[1].vars["y"]) = 0
             <=> Expr_eq(scopes[1].vars["x"], scopes[1].vars["y"]))
    /\ (Compared(MapXY) /\ result.ok) =>
          (Len(result.val.entries) = 1
             <=> Expr_eq(scopes[1].vars["x"], scopes[1].vars["y"]))

(***************************************************************************)
(* SpecLogic: lt, lte, gt, gte, = and != called with two or three          *)
(* arguments: numbers, a keyword, and the name x that the embedder binds   *)
(* to a number, to NaN or to infinity.                                     *)
(***************************************************************************)
Infinity == Float(1, 0)

NumOperators == {"lt", "lte", "gt", "gte"}
GenericOperators == {"=", "!="}

LogicBound == {Number(1), Number(3), NaN, Infinity}
LogicArgs == {Number(2), Keyword(":k"), Symbol("x")}
LogicArgLists == {<<a, b>> : a, b \in LogicArgs} \cup {<<a, b, c>> : a, b, c \in LogicArgs}

NextLogic ==
    \/ \E v \in LogicBound : Def(1, "x", v)
    \/ \E op \in NumOperators \cup GenericOperators, args \in LogicArgLists :
          /\ Binds(scopes, 1, "x")
          /\ Eval(<<Call(op, args)>>, 1)

SpecLogic == Init /\ [][NextLogic]_vars

\* The session has just evaluated one call of an operator of `ops`.
Operated(ops) ==
    /\ last.op = "eval"
    /\ Len(last.exprs) = 1
    /\ last.exprs[1].tag = "List"
    /\ last.exprs[1].items[1].name \in ops

OperatorName == last.exprs[1].items[1].name

\* The evaluated arguments of that call: a literal is its own value, x has
\* the value it is bound to.
OperatorValues ==
    [i \in 1..(Len(last.exprs[1].items) - 1) |->
        IF last.exprs[1].items[i + 1].tag = "Symbol"
        THEN scopes[last.env].vars[last.exprs[1].items[i + 1].name]
        ELSE last.exprs[1].items[i + 1]]

\* a op b, on two values.
Holds(op, a, b) ==
    CASE op = "lt" -> Float_lt(a, b)
      [] op = "lte" -> Float_lt(a, b) \/ (a = b /\ ~is_nan(a))
      [] op = "gt" -> Float_lt(b, a)
      [] op = "gte" -> Float_lt(b, a) \/ (a = b /\ ~is_nan(a))
      [] op = "=" -> a = b
      [] op = "!=" -> a # b

\* C21: lt, lte, gt and gte compare every later argument against the first
\* one: on Number arguments a0..an the result is Boolean(true) exactly when
\* a0 op ai holds for every i, and Boolean(false) otherwise; = and != have
\* the same shape on values of any kind, with structural equality.
C21_ComparesAgainstFirst ==
    (/\ Operated(NumOperators \cup GenericOperators)
     /\ OperatorName \in NumOperators =>
            \A i \in DOMAIN OperatorValues : OperatorValues[i].tag = "Number")
    => result = OkR(Boolean(\A i \in 2..Len(OperatorValues) :
                               Holds(OperatorName, OperatorValues[1], OperatorValues[i])))

\* (lt x 2 2) is true when x is 1, although 2 is not less than 2.
C21_Witness ==
    /\ Evaluated(last, <<Call("lt", <<Symbol("x"), Number(2), Number(2)>>)>>)
    /\ scopes[1].vars["x"] = Number(1)
    /\ result = OkR(Boolean(TRUE))

\* The first of the values that is not a Number.
FirstNonNumber(values) ==
    values[CHOOSE i \in DOMAIN values :
              /\ values[i].tag # "Number"
              /\ \A j \in 1..(i - 1) : values[j].tag = "Number"]

\* C22: every argument of lt, lte, gt and gte must be a Number: a call in
\* which an evaluated argument, at any position, is not a Number fails with
\* InvalidType(operator, that value) and returns no Boolean.
C22_EveryArgumentMustBeNumber ==
    (/\ Operated(NumOperators)
     /\ \E i \in DOMAIN OperatorValues : OperatorValues[i].tag # "Number")
    => result = ErrR(InvalidType(OperatorName, FirstNonNumber(OperatorValues)))

(***************************************************************************)
(* SpecMath: +, -, * and / called with no argument and with up to three    *)
(* arguments out of 2, :k and x, x bound to 0, 4 or infinity: every        *)
(* quotient of these is a fraction that an f64 holds exactly, infinity or  *)
(* NaN.                                                                    *)
(***************************************************************************)
MathOperators == {"+", "-", "*", "/"}

MathBound == {Number(0), Number(4), Infinity}
MathArgs == {Number(2), Keyword(":k"), Symbol("x")}
MathArgLists ==
    {<<>>} \cup {<<a>> : a \in MathArgs} \cup {<<a, b>> : a, b \in MathArgs}
           \cup {<<a, b, c>> : a, b, c \in MathArgs}

NextMath ==
    \/ \E v \in MathBound : Def(1, "x", v)
    \/ \E op \in MathOperators, args \in MathArgLists :
          /\ Binds(scopes, 1, "x")
          /\ Eval(<<Call(op, args)>>, 1)

SpecMath == Init /\ [][NextMath]_vars

\* ((v1 op v2) op v3) ... op vn, for n >= 1.
RECURSIVE FoldLeft(_, _, _)
FoldLeft(op, values, n) ==
    IF n = 1 THEN values[1]
    ELSE Operate(op, FoldLeft(op, values, n - 1), values[n])

\* C23: +, -, * and / evaluate all their arguments and fold them from the
\* left, starting with the first: a single argument is returned unchanged;
\* no argument is InvalidArity; an evaluated argument that is not a Number,
\* at any position, is InvalidType(operator, that value).
C23_ArithmeticFoldsLeft ==
    Operated(MathOperators) =>
        IF Len(OperatorValues) = 0
        THEN /\ result = ErrR(InvalidArity(OperatorName, Range(1, UsizeMax)))
             /\ EvaluatedAt(log, 1) = <<>>
        ELSE /\ EvaluatedAt(log, 1) = Tail(last.exprs[1].items)
             /\ IF \E i \in DOMAIN OperatorValues : OperatorValues[i].tag # "Number"
                THEN result = ErrR(InvalidType(OperatorName, FirstNonNumber(OperatorValues)))
                ELSE result = OkR(FoldLeft(OperatorName, OperatorValues, Len(OperatorValues)))

\* (/ x 2 2) with x = 4 is (4 / 2) / 2 = 1, not 4 / (2 / 2) or 2 / (2 / 4).
C23_Witness ==
    /\ Evaluated(last, <<Call("/", <<Symbol("x"), Number(2), Number(2)>>)>>)
    /\ scopes[1].vars["x"] = Number(4)
    /\ result = OkR(Number(1))

(***************************************************************************)
(* SpecTruthy: `if` on the value of x, a method whose selector is the      *)
(* value x had when the method was defined, and a method whose selector is *)
(* a function that returns the receiver.                                   *)
(***************************************************************************)
TruthValues ==
    {Nil, Boolean(FALSE), Boolean(TRUE), Number(0), String(""), Vector(<<>>), Map(<<>>)}

IfXThen == Call("if", <<Symbol("x"), Keyword(":a")>>)
IfXThenElse == Call("if", <<Symbol("x"), Keyword(":a"), Keyword(":b")>>)
DefmValue == Call("defm", <<Symbol("x"), Vector(<<Symbol("m")>>), Keyword(":k")>>)
DefmReceiver ==
    Call("defm", <<Call("fn", <<Vector(<<Symbol("y")>>), Symbol("y")>>),
                   Vector(<<Symbol("f")>>), Keyword(":k")>>)
SendValue == MethodList(<<Number(1), Symbol("m")>>)
SendReceiver == MethodList(<<Symbol("x"), Symbol("f")>>)

NextTruthy ==
    \/ \E v \in TruthValues : Def(1, "x", v)
    \/ /\ Binds(scopes, 1, "x")
       /\ ~HasMethods(scopes, 1, "m")
       /\ Eval(<<DefmValue>>, 1)
    \/ ~HasMethods(scopes, 1, "f") /\ Eval(<<DefmReceiver>>, 1)
    \/ \E e \in {IfXThen, IfXThenElse, SendValue, SendReceiver} :
          /\ Binds(scopes, 1, "x")
          /\ HasMethods(scopes, 1, "m")
          /\ HasMethods(scopes, 1, "f")
          /\ Eval(<<e>>, 1)

SpecTruthy == Init /\ [][NextTruthy]_vars

\* Every value but nil and false.
Truthy(v) == v # Nil /\ v # Boolean(FALSE)

\* C24: a value is truthy exactly when it is neither nil nor false, so the
\* number 0, the empty string, the empty vector and the empty map are
\* truthy; the same predicate picks the arm of `if` and decides whether a
\* method's selector matches.
C24_TruthyButNilAndFalse ==
    /\ Evaluated(last, <<IfXThen>>) =>
          result = OkR(IF Truthy(scopes[1].vars["x"]) THEN Keyword(":a") ELSE Nil)
    /\ Evaluated(last, <<IfXThenElse>>) =>
          result = OkR(IF Truthy(scopes[1].vars["x"]) THEN Keyword(":a") ELSE Keyword(":b"))
    /\ Evaluated(last, <<SendValue>>) =>
          result = IF Truthy(scopes[1].methods["m"][1].selector)
                   THEN OkR(Keyword(":k")) ELSE ErrR(NotAMethod("m"))
    /\ Evaluated(last, <<SendReceiver>>) =>
          result = IF Truthy(scopes[1].vars["x"])
                   THEN OkR(Keyword(":k")) ELSE ErrR(NotAMethod("f"))

\* The method whose selector is the number 0 answered the message.
C24_Witness ==
    /\ Evaluated(last, <<SendValue>>)
    /\ scopes[1].methods["m"][1].selector = Number(0)
    /\ result = OkR(Keyword(":k"))

(***************************************************************************)
(* SpecOrder: vector literals and calls of = whose elements are            *)
(* (var x 1), (set! x 2), x and the unbound name u, evaluated in the       *)
(* innermost scope of the session.                                         *)
(***************************************************************************)
VarX == Call("var", <<Symbol("x"), Number(1)>>)
SetX == Call("set!", <<Symbol("x"), Number(2)>>)
OrderElements == {VarX, SetX, Symbol("x"), Symbol("u")}
OrderLists ==
    {<<a, b>> : a, b \in OrderElements} \cup {<<a, b, c>> : a, b, c \in OrderElements}

NextOrder ==
    \/ /\ Len(scopes) = 1
       /\ ~Binds(scopes, 1, "x")
       /\ Extend(1)
    \/ \E elements \in OrderLists : Eval(<<Vector(elements)>>, Len(scopes))
    \/ \E elements \in OrderLists : Eval(<<Call("=", elements)>>, Len(scopes))

SpecOrder == Init /\ [][NextOrder]_vars

\* What evaluating one element gives when x is seen as `x` (an Ok value or
\* the UnboundVar error): the value or error of the element, and x after it.
ElementStep(element, x) ==
    IF element = VarX THEN [res |-> OkR(Nil), x |-> OkR(Number(1))]
    ELSE IF element = SetX
    THEN (IF x.ok THEN [res |-> OkR(Nil), x |-> OkR(Number(2))]
          ELSE [res |-> ErrR(SetUninitializedVar("x")), x |-> x])
    ELSE IF element = Symbol("x") THEN [res |-> x, x |-> x]
    ELSE [res |-> ErrR(UnboundVar("u")), x |-> x]

\* The elements from i on, one after the other from the left, each seeing
\* what the ones before it did, up to the first that fails: the values,
\* the error if any, the number of elements evaluated, and x at the end.
RECURSIVE Walk(_, _, _, _)
Walk(elements, i, x, vals) ==
    IF i > Len(elements) THEN [ok |-> TRUE, vals |-> vals, seen |-> i - 1, x |-> x]
    ELSE IF ~ElementStep(elements[i], x).res.ok
    THEN [ok |-> FALSE, err |-> ElementStep(elements[i], x).res.err, seen |-> i,
          x |-> ElementStep(elements[i], x).x]
    ELSE Walk(elements, i + 1, ElementStep(elements[i], x).x,
              Append(vals, ElementStep(elements[i], x).res.val))

\* One step of C25: a form with the elements `elements` evaluated in
\* last'.env; all(vals) is the value of the form on the values of its
\* elements.
OrderStep(elements, all(_)) ==
        LET w == Walk(elements, 1, Seen(scopes, last'.env, "x"), <<>>)
        IN /\ EvaluatedAt(log', 1) = SubSeq(elements, 1, w.seen)
           /\ EvaluatedIn(log', last'.env, 1) = EvaluatedAt(log', 1)
           /\ Seen(scopes', last'.env, "x") = w.x
           /\ result' = IF w.ok THEN OkR(all(w.vals)) ELSE ErrR(w.err)

\* C25: the arguments of a call and the elements of a vector literal are
\* evaluated strictly from left to right in the same environment, the side
\* effects of an earlier one visible to the later ones; evaluation stops at
\* the first one that fails, its error is the result, and nothing to its
\* right is evaluated.
C25_LeftToRightStopAtFirstError ==
    [][last'.op = "eval" =>
          IF last'.exprs[1].tag = "Vector"
          THEN OrderStep(last'.exprs[1].items, LAMBDA vals : Vector(vals))
          ELSE OrderStep(Tail(last'.exprs[1].items),
                         LAMBDA vals : Boolean(\A i \in 2..Len(vals) : vals[1] = vals[i]))]_vars

\* [(var x 1) x (set! x 2)] in a scope without x is [nil 1 nil] and leaves
\* x at 2.
C25_Witness ==
    /\ Evaluated(last, <<Vector(<<VarX, Symbol("x"), SetX>>)>>)
    /\ result = OkR(Vector(<<Nil, Number(1), Nil>>))
    /\ Seen(scopes, last.env, "x") = OkR(Number(2))

(***************************************************************************)
(* SpecArity: (fn v :k) and (defn f v :k) for every parameter vector v of  *)
(* up to three elements out of a, & and 1.                                 *)
(***************************************************************************)
ParamElements == {Symbol("a"), Ampersand, Number(1)}
ParamVectors ==
    {<<>>} \cup {<<a>> : a \in ParamElements} \cup {<<a, b>> : a, b \in ParamElements}
           \cup {<<a, b, c>> : a, b, c \in ParamElements}

FnOf(v) == Call("fn", <<Vector(v), Keyword(":k")>>)
DefnOf(v) == Call("defn", <<Symbol("f"), Vector(v), Keyword(":k")>>)

NextArity ==
    \/ \E v \in ParamVectors : Eval(<<FnOf(v)>>, 1)
    \/ \E v \in ParamVectors : Eval(<<DefnOf(v)>>, 1)

SpecArity == Init /\ [][NextArity]_vars

\* The function was created with the arity `arity`: fn returned it, defn
\* bound it to f.
Created(v, arity) ==
    /\ result'.ok
    /\ IF last'.exprs = <<FnOf(v)>>
       THEN result'.val.tag = "Fn" /\ result'.val.arity = arity /\ scopes' = scopes
       ELSE /\ Binds(scopes', 1, "f")
            /\ scopes'[1].vars["f"].tag = "Fn"
            /\ scopes'[1].vars["f"].arity = arity

\* One step of C26: fn or defn on the parameter vector v.
ArityStep(v) ==
    (last'.op = "eval" /\ last'.exprs \in {<<FnOf(v)>>, <<DefnOf(v)>>}) =>
        LET amp == FirstAmpersand(v)
        IN IF amp = 0 THEN Created(v, Count(Len(v)))
           ELSE IF Len(v) = amp + 1 /\ v[amp + 1].tag = "Symbol"
           THEN Created(v, Range(amp - 1, UsizeMax))
           ELSE /\ ~result'.ok
                /\ result'.err.tag = "UnexpectedForm"
                /\ scopes' = scopes

\* C26: fn and defn take the arity from the parameter vector: Count(length)
\* without an Ampersand; with an Ampersand at index i, Range(i, unbounded),
\* and then exactly one further element must follow the Ampersand and it
\* must be a symbol; otherwise creating the function fails with
\* UnexpectedForm and defn binds no name.
C26_ArityFromParameterVector == [][\A v \in ParamVectors : ArityStep(v)]_vars

(***************************************************************************)
(* SpecDefm: (defm selector v :k) in the innermost scope of the session,   *)
(* for parameter vectors v of zero to four elements and the selectors x    *)
(* and u; x is bound to nil or to 1 in the root scope and u is unbound.    *)
(* The message <1 m> is sent in between.                                   *)
(***************************************************************************)
DefmVectors ==
    {<<>>, <<Symbol("m")>>, <<Symbol("m"), Symbol("a")>>,
     <<Symbol("m"), Symbol("a"), Symbol("n")>>,
     <<Symbol("m"), Symbol("a"), Symbol("n"), Symbol("b")>>}
DefmOf(selector, v) == Call("defm", <<selector, Vector(v), Keyword(":k")>>)
SendM == MethodList(<<Number(1), Symbol("m")>>)

NextDefm ==
    \/ \E v \in {Nil, Number(1)} : Def(1, "x", v)
    \/ Len(scopes) = 1 /\ Extend(1)
    \/ \E selector \in {Symbol("x"), Symbol("u")}, v \in DefmVectors :
          Eval(<<DefmOf(selector, v)>>, Len(scopes))
    \/ Eval(<<SendM>>, Len(scopes))

SpecDefm == Init /\ [][NextDefm]_vars

\* The methods registered under id in scope s.
MethodsOf(sc, s, id) == IF HasMethods(sc, s, id) THEN sc[s].methods[id] ELSE <<>>

\* Scope `env` has one more method under `id`, at the end of the list, with
\* the selector and the arity given; nothing else has changed.
Registered(env, id, selector, arity) ==
    /\ Len(scopes') = Len(scopes)
    /\ \A s \in 1..Len(scopes) :
          /\ scopes'[s].vars = scopes[s].vars
          /\ \A other \in DOMAIN scopes'[s].methods :
                (s # env \/ other # id) =>
                    MethodsOf(scopes', s, other) = MethodsOf(scopes, s, other)
    /\ Len(MethodsOf(scopes', env, id)) = Len(MethodsOf(scopes, env, id)) + 1
    /\ SubSeq(MethodsOf(scopes', env, id), 1, Len(MethodsOf(scopes, env, id)))
          = MethodsOf(scopes, env, id)
    /\ LET m == MethodsOf(scopes', env, id)[Len(MethodsOf(scopes', env, id))]
       IN /\ m.tag = "Method"
          /\ m.id = id
          /\ m.selector = selector
          /\ m.arity = arity

\* One step of C27: (defm selector v :k) evaluated in last'.env.
DefmStep(selector, v) ==
    Evaluated(last', <<DefmOf(selector, v)>>) =>
        LET value == Seen(scopes, last'.env, selector.name)
        IN /\ EvaluatedAt(log', 1) = <<selector>>
           /\ EvaluatedIn(log', last'.env, 1) = <<selector>>
           /\ IF ~value.ok THEN result' = ErrR(value.err) /\ scopes' = scopes
              ELSE IF Len(v) = 0 \/ (Len(v) > 1 /\ Len(v) % 2 = 1)
              THEN /\ ~result'.ok
                   /\ result'.err.tag = "UnexpectedForm"
                   /\ scopes' = scopes
              ELSE /\ result' = OkR(Nil)
                   /\ Registered(last'.env, NamedBy(v), value.val,
                                 Count(IF Len(v) = 1 THEN 0 ELSE Len(v) \div 2))

\* One step of C27: a message sent later does not evaluate the selector
\* expression again; the receiver is accepted on the value stored.
SentStep ==
    Evaluated(last', <<SendM>>) =>
        /\ \A i \in 1..Len(log') :
              log'[i].ev = "eval" => log'[i].expr # Symbol("x")
        /\ LET k == NearestMethods(scopes, last'.env, "m")
           IN k # 0 =>
                 (result' = ErrR(NotAMethod("m"))
                    <=> \A i \in 1..Len(scopes[k].methods["m"]) :
                           scopes[k].methods["m"][i].selector = Nil)

\* C27: defm evaluates its selector once, when the method is defined, in
\* the current environment; the parameter vector must have one element or
\* an even, non-zero number of elements; the Method is registered at the
\* end of the current scope's list for the derived identifier, with arity
\* Count(0) for the one-element form and Count(length / 2) otherwise; an
\* empty vector or one of odd length above 1 fails with UnexpectedForm and
\* registers nothing.
C27_DefmRegistersAtEnd ==
    [][/\ \A selector \in {Symbol("x"), Symbol("u")}, v \in DefmVectors :
             DefmStep(selector, v)
       /\ SentStep]_vars

\* A second method under "m", defined with [m a] while x was 1, stands
\* after the first one, defined with [m] while x was nil.
C27_Witness ==
    /\ Evaluated(last, <<DefmOf(Symbol("x"), <<Symbol("m"), Symbol("a")>>)>>)
    /\ Len(MethodsOf(scopes, last.env, "m")) = 2
    /\ scopes[last.env].methods["m"][1].selector = Nil
    /\ scopes[last.env].methods["m"][1].arity = Count(0)
    /\ scopes[last.env].methods["m"][2].selector = Number(1)
    /\ scopes[last.env].methods["m"][2].arity = Count(1)

(***************************************************************************)
(* SpecReceiver: the message <(set! x (if x false true)) m>, whose         *)
(* receiver flips x each time it is evaluated, sent while one or two       *)
(* methods are registered under "m" with the selectors true, nil, number?  *)
(* and (fn [y] true).                                                      *)
(***************************************************************************)
Flip ==
    Call("set!", <<Symbol("x"),
                   Call("if", <<Symbol("x"), Boolean(FALSE), Boolean(TRUE)>>)>>)
SendFlip == MethodList(<<Flip, Symbol("m")>>)

ReceiverSelectors ==
    {Boolean(TRUE), Nil, Symbol("number?"),
     Call("fn", <<Vector(<<Symbol("y")>>), Boolean(TRUE)>>)}

NextReceiver ==
    \/ \E b \in BOOLEAN : Def(1, "x", Boolean(b))
    \/ \E selector \in ReceiverSelectors :
          Eval(<<DefmOf(selector, <<Symbol("m")>>)>>, 1)
    \/ Binds(scopes, 1, "x") /\ Eval(<<SendFlip>>, 1)

SpecReceiver == Init /\ [][NextReceiver]_vars

\* How many times the expression e was evaluated, by the log l.
TimesEvaluated(l, e) ==
    Cardinality({i \in 1..Len(l) : l[i].ev = "eval" /\ l[i].expr = e})

\* C28: in the evaluation of one message <receiver ...> that a method
\* answers, the receiver expression is evaluated exactly once, whatever the
\* number of methods registered under the identifier and whatever their
\* selectors are: a side effect of the receiver happens once.
C28_ReceiverEvaluatedOnce ==
    [][(Evaluated(last', <<SendFlip>>) /\ result'.ok) =>
          /\ TimesEvaluated(log', Flip) = 1
          /\ scopes'[1].vars["x"] # scopes[1].vars["x"]]_vars

(***************************************************************************)
(* SpecParseFirst: texts that start with a well-formed form with a side    *)
(* effect and go on with nothing, with another form, or with text that     *)
(* does not scan or does not parse.                                        *)
(***************************************************************************)
\* (var x 1), (var x 2), (var y 1) and (set! x 2)
Fronts ==
    {<<"(", "v", "a", "r", " ", "x", " ", "1", ")">>,
     <<"(", "v", "a", "r", " ", "x", " ", "2", ")">>,
     <<"(", "v", "a", "r", " ", "y", " ", "1", ")">>,
     <<"(", "s", "e", "t", "!", " ", "x", " ", "2", ")">>}

\* Nothing, x, and (var y 2)
GoodTails ==
    {<<>>, <<" ", "x">>, <<" ", "(", "v", "a", "r", " ", "y", " ", "2", ")">>}

\* A closer without opener, an opener never closed, a map of one element,
\* a string never closed, and a character no token starts with.
ParseErrorTails ==
    {<<" ", ")">>, <<" ", "]">>, <<" ", "(", "x">>, <<" ", "[", "1">>, <<" ", "<">>,
     <<" ", "{", ":", "a", "}">>}
ScannerErrorTails == {<<" ", "\"", "a">>, <<" ", "#">>, <<"\n", "x", " ", "%">>}

ParseFirstInputs ==
    {f \o t : f \in Fronts, t \in GoodTails \cup ParseErrorTails \cup ScannerErrorTails}

NextParseFirst == \E input \in ParseFirstInputs : EvalInput(input, 1)

SpecParseFirst == Init /\ [][NextParseFirst]_vars

\* The step evaluated a text that ends with one of `tails`.
Ending(tails) ==
    /\ last'.op = "eval"
    /\ \E f \in Fronts, t \in tails : last'.input = f \o t

\* Nothing was evaluated and the environment is as before.
NothingEvaluated == log' = <<>> /\ scopes' = scopes

\* C29: scanning and parsing of the whole input are complete before any
\* form is evaluated: when the input fails with ScannerError or ParseError
\* no form has been evaluated and the environment is exactly as before,
\* even when well-formed forms come before the malformed text.
C29_ParsedBeforeEvaluated ==
    [][/\ Ending(ParseErrorTails) =>
             ~result'.ok /\ result'.err.tag = "ParseError" /\ NothingEvaluated
       /\ Ending(ScannerErrorTails) =>
             ~result'.ok /\ result'.err.tag = "ScannerError" /\ NothingEvaluated
       /\ Ending(GoodTails) => log' # <<>>
       /\ (last'.op = "eval" /\ ~result'.ok
             /\ result'.err.tag \in {"ParseError", "ScannerError"}) => NothingEvaluated]_vars

\* (var x 2) ) failed with a ParseError while x was 1, and x is still 1.
C29_Witness ==
    /\ last.op = "eval"
    /\ last.input = <<"(", "v", "a", "r", " ", "x", " ", "2", ")", " ", ")">>
    /\ ~result.ok
    /\ result.err.tag = "ParseError"
    /\ Seen(scopes, 1, "x") = OkR(Number(1))

(***************************************************************************)
(* SpecParser: the parser run one loop iteration at a time on the tokens   *)
(* of every text of up to MaxText characters out of ( ) { } and 1.  The    *)
(* recursion of parse_expression, parse_vector and parse_map is a stack of *)
(* open aggregates.  A Parser is built for one parse and runs its loops to *)
(* the end without waiting for anything, hence the fairness on ParseStep.  *)
(***************************************************************************)
MaxText == 4

ParserChars == {"(", ")", "{", "}", "1"}
ParserTexts == UNION {[1..n -> ParserChars] : n \in 0..MaxText}

\* The closing token of each opening token.
Closers ==
    ("LeftParen" :> "RightParen") @@ ("LeftAngle" :> "RightAngle")
    @@ ("LeftSquare" :> "RightSquare") @@ ("LeftCurly" :> "RightCurly")

\* Parser::new
Parser_new(tokens) ==
    [tokens |-> tokens, current |-> 1, stack |-> <<>>, program |-> <<>>,
     done |-> FALSE, res |-> OkR(Nil)]

\* Parser::peek
peek(p) == p.tokens[p.current]

\* Parser::is_at_end
is_at_end(p) == peek(p).type = "EndOfFile"

\* Parser::check
check(p, token_type) == ~is_at_end(p) /\ peek(p).type = token_type

\* Parser::advance
advance(p) == IF ~is_at_end(p) THEN [p EXCEPT !.current = @ + 1] ELSE p

\* `program.push(..)` and `expressions.push(..)`: the expression goes to
\* the innermost open aggregate, or to the program.
push(p, e) ==
    IF p.stack = <<>> THEN [p EXCEPT !.program = Append(@, e)]
    ELSE [p EXCEPT !.stack[Len(p.stack)].vals = Append(@, e)]

\* The parser returns.
return(p, res) == [p EXCEPT !.done = TRUE, !.res = res]

\* A parser that goes round its loop again on a token it does not expect.
unexpected_ignored(p) == p

\* parse_expression: `token => Err(ParseError("Unexpected token ..."))`
unexpected(p) == return(p, ErrR(ParseError("Unexpected token " \o peek(p).type)))

\* parse_expression on the token under the cursor: match_token(open) of
\* parse_vector and parse_map, or the literal, or the error.
parse_expression_step(p) ==
    IF peek(p).type \in DOMAIN Closers
    THEN [advance(p) EXCEPT !.stack =
             Append(@, [close |-> Closers[peek(p).type], open |-> peek(p), vals |-> <<>>])]
    ELSE IF peek(p).type \in {"Number", "Boolean", "String", "Keyword", "Symbol",
                               "Ampersand", "Nil"}
    THEN push(advance(p), parse_expression(p.tokens, p.current).res.val)
    ELSE unexpected(p)

\* The aggregate that the innermost open one has become.
aggregate(frame) ==
    CASE frame.close = "RightParen" -> OkR(List(frame.vals))
      [] frame.close = "RightAngle" -> OkR(MethodList(frame.vals))
      [] frame.close = "RightSquare" -> OkR(Vector(frame.vals))
      [] frame.close = "RightCurly" ->
            parse_map(Parsed(0, [ok |-> TRUE, vals |-> frame.vals]), frame.open).res

\* match_token(close) at the end of parse_vector and parse_map, and the
\* return to the caller.
close_step(p) ==
    IF aggregate(p.stack[Len(p.stack)]).ok
    THEN push([advance(p) EXCEPT !.stack = SubSeq(@, 1, Len(@) - 1)],
              aggregate(p.stack[Len(p.stack)]).val)
    ELSE return(advance(p), aggregate(p.stack[Len(p.stack)]))

\* One iteration of `while !is_at_end()` of Parser::parse, or of
\* `while !check(&close)` of the innermost parse_vector or parse_map.
Parser_step(p) ==
    IF p.stack = <<>>
    THEN (IF is_at_end(p) THEN return(p, [ok |-> TRUE, exprs |-> p.program])
          ELSE parse_expression_step(p))
    ELSE IF check(p, p.stack[Len(p.stack)].close) THEN close_step(p)
    ELSE parse_expression_step(p)

\* parse(input): the text is scanned and a Parser is built on the tokens.
ParseStart(input) ==
    /\ last.op = "new"
    /\ scan(input).ok
    /\ last' = [op |-> "parse", input |-> input, parser |-> Parser_new(scan(input).tokens)]
    /\ result' = OkR(Nil)
    /\ UNCHANGED <<scopes, log>>

\* The parser runs one iteration of its loop.
ParseStep ==
    /\ last.op = "parse"
    /\ ~last.parser.done
    /\ last' = [last EXCEPT !.parser = Parser_step(@)]
    /\ result' = IF Parser_step(last.parser).done THEN Parser_step(last.parser).res
                 ELSE result
    /\ UNCHANGED <<scopes, log>>

NextParser ==
    \/ \E input \in ParserTexts : ParseStart(input)
    \/ ParseStep

SpecParser == Init /\ [][NextParser]_vars /\ WF_vars(ParseStep)

Parsing == last.op = "parse"

\* The brackets of src from i on do not match: a closer that does not
\* close the innermost open bracket, or a bracket still open at the end;
\* `open` holds the closers waited for.
RECURSIVE Unmatched(_, _, _)
Unmatched(src, i, open) ==
    IF i > Len(src) THEN open # <<>>
    ELSE IF src[i] = "(" THEN Unmatched(src, i + 1, Append(open, ")"))
    ELSE IF src[i] = "{" THEN Unmatched(src, i + 1, Append(open, "}"))
    ELSE IF src[i] \in {")", "}"}
    THEN (IF open = <<>> \/ open[Len(open)] # src[i] THEN TRUE
          ELSE Unmatched(src, i + 1, SubSeq(open, 1, Len(open) - 1)))
    ELSE Unmatched(src, i + 1, open)

\* The tokens end with the only EndOfFile and the cursor is on a token.
CursorOnToken ==
    LET tokens == last.parser.tokens
    IN /\ tokens[Len(tokens)].type = "EndOfFile"
       /\ \A i \in 1..(Len(tokens) - 1) : tokens[i].type # "EndOfFile"
       /\ last.parser.current \in 1..Len(tokens)

\* What the parser returned: what parse returns, and a ParseError when the
\* brackets do not match.
Returns ==
    /\ result = parse(last.input)
    /\ Unmatched(last.input, 1, <<>>) => ~result.ok /\ result.err.tag = "ParseError"

\* C30: parsing terminates on every token sequence the scanner produces,
\* which ends with exactly one EndOfFile, the last token: each iteration of
\* a parser loop consumes a token or returns, the cursor never goes past
\* the EndOfFile, and an aggregate that is never closed or a closer without
\* opener is a ParseError, not a loop and not a read out of bounds.
C30_ParserTerminates ==
    /\ [](Parsing => CursorOnToken)
    /\ [][(Parsing /\ Parsing') =>
             \/ last'.parser.current = last.parser.current + 1
             \/ last'.parser.done]_vars
    /\ []((Parsing /\ last.parser.done) => Returns)
    /\ Parsing ~> (Parsing /\ last.parser.done)

\* ({1 was parsed up to the EndOfFile and returned a ParseError.
C30_Witness ==
    /\ Parsing
    /\ last.input = <<"(", "{", "1">>
    /\ last.parser.done
    /\ last.parser.current = 4
    /\ result = ErrR(ParseError("Unexpected token EndOfFile"))

====
